---- MODULE Spec2Model ----
(***************************************************************************)
(* Ex command line of the Vim emulation layer: the command history store   *)
(* (cmd_line/commandLineHistory.ts), the range and command nodes           *)
(* (cmd_line/node.ts) and the orchestrator CommandLine.Run                 *)
(* (cmd_line/commandLine.ts).                                              *)
(*                                                                         *)
(* Texts (command lines, history entries, file contents) are sequences of  *)
(* one-character strings, so that stripping, JSON encoding and JSON        *)
(* decoding are computed character by character.                           *)
(***************************************************************************)
EXTENDS Integers, Sequences, FiniteSets, TLC

VARIABLES
    history,      \* CommandLineHistory._history
    file,         \* the .cmdline_history file: [exists, data]
    dir,          \* whether the history directory exists
    cap,          \* configuration.history
    hOp,          \* the last operation on the history store and what it saw
    buffer,       \* the document: a sequence of lines
    cursorPosition,       \* vimState.cursorPosition
    cursorStartPosition,  \* vimState.cursorStartPosition
    selections,   \* editor.selections; selections[1] is editor.selection
    marks,        \* historyTracker's marks: name -> <<position>> or <<>>
    cmdLine,      \* the node.CommandLine being built or executed: [range, command]
    rOp,          \* the last operation on cmdLine and what it saw
    enableNeovim, \* configuration.enableNeovim
    historyIndex, \* CommandLine._commandLineHistoryIndex
    run,          \* the current or last call of CommandLine.Run
    spawn,        \* whether the backend process failed to spawn, and whether Run began after it
    substituteGlobalFlag, \* configuration.substituteGlobalFlag
    searchState,  \* the searches made so far, oldest first: [kind, pattern]
    sOp,          \* the last substitute command and what it saw
    nvim,         \* the external Vim process as seen through the RPC channel
    bridge,       \* the current or last call of Neovim.run
    modeHandler,  \* the editor's entry of ModeHandlerMap: [exists, nvim]
    taskQueue,    \* taskQueue: the tasks enqueued and not yet started
    procs,        \* the extension's entry points in flight: name -> position
    write         \* the current or last call of WriteCommand.execute

hvars == <<history, file, dir, cap, hOp>>

evars == <<buffer, cursorPosition, cursorStartPosition, selections, marks>>

rvars == <<cmdLine, rOp>>

cvars == <<enableNeovim, historyIndex, run, spawn>>

svars == <<substituteGlobalFlag, searchState, sOp>>

bvars == <<nvim, bridge>>

xvars == <<modeHandler, taskQueue, procs>>

wvars == <<write>>

vars == <<history, file, dir, cap, hOp, buffer, cursorPosition, cursorStartPosition,
          selections, marks, cmdLine, rOp, enableNeovim, historyIndex, run, spawn,
          substituteGlobalFlag, searchState, sOp, nvim, bridge,
          modeHandler, taskQueue, procs, write>>

(***************************************************************************)
(* Bounds                                                                  *)
(***************************************************************************)
\* largest value configuration.history takes
MaxCap == 2
\* most lines of a document
MaxLines == 3
\* most Offset tokens chained on one side of a range
MaxOffsets == 1

(***************************************************************************)
(* Characters and texts                                                    *)
(***************************************************************************)
LB == "["
RB == "]"
QT == "\""
BSL == "\\"
CM == ","

\* the entries handed to add(); the empty text stands for '' and undefined
Entries == { <<>>, <<"a">>, <<"x">>, <<QT, CM, BSL>> }

NoFile == [exists |-> FALSE, data |-> <<>>]
FileOf(d) == [exists |-> TRUE, data |-> d]

\* history files found on disk at construction
InitFiles ==
    { NoFile,
      FileOf(<<>>),
      FileOf(<<"{", "}">>),
      FileOf(<<"7">>),
      FileOf(<<QT, "a", QT>>),
      FileOf(<<LB>>),
      FileOf(<<LB, QT, "a", QT, CM, RB>>),
      FileOf(<<LB, RB>>),
      FileOf(<<LB, QT, "a", QT, CM, QT, "a", QT, RB>>),
      FileOf(<<LB, QT, "a", QT, CM, QT, "x", QT, CM, QT, BSL, BSL, QT, CM, QT, BSL, QT, CM, QT, RB>>) }

(***************************************************************************)
(* JSON.stringify / JSON.parse on arrays of strings                        *)
(***************************************************************************)
RECURSIVE JSONescape(_)
JSONescape(s) ==
    IF s = <<>> THEN <<>>
    ELSE (IF Head(s) \in {QT, BSL} THEN <<BSL, Head(s)>> ELSE <<Head(s)>>)
         \o JSONescape(Tail(s))

JSONquote(s) == <<QT>> \o JSONescape(s) \o <<QT>>

RECURSIVE JSONjoin(_)
JSONjoin(h) ==
    IF h = <<>> THEN <<>>
    ELSE IF Len(h) = 1 THEN JSONquote(h[1])
    ELSE JSONquote(h[1]) \o <<CM>> \o JSONjoin(Tail(h))

JSONstringify(h) == <<LB>> \o JSONjoin(h) \o <<RB>>

JSONfail == [ok |-> FALSE, isArray |-> FALSE, value |-> <<>>, next |-> 0]

\* the string literal whose opening quote precedes position i
RECURSIVE JSONparseString(_, _, _)
JSONparseString(s, i, acc) ==
    IF i > Len(s) THEN JSONfail
    ELSE IF s[i] = QT THEN [ok |-> TRUE, isArray |-> FALSE, value |-> acc, next |-> i + 1]
    ELSE IF s[i] = BSL
         THEN IF i + 1 <= Len(s) /\ s[i + 1] \in {QT, BSL, "/"}
              THEN JSONparseString(s, i + 2, Append(acc, s[i + 1]))
              ELSE JSONfail
    ELSE JSONparseString(s, i + 1, Append(acc, s[i]))

\* the elements of an array from position i, up to the closing bracket
RECURSIVE JSONparseElements(_, _, _)
JSONparseElements(s, i, acc) ==
    IF i > Len(s) \/ s[i] # QT THEN JSONfail
    ELSE LET r == JSONparseString(s, i + 1, <<>>) IN
         IF ~r.ok \/ r.next > Len(s) THEN JSONfail
         ELSE IF s[r.next] = CM THEN JSONparseElements(s, r.next + 1, Append(acc, r.value))
         ELSE IF s[r.next] = RB /\ r.next = Len(s)
              THEN [ok |-> TRUE, isArray |-> TRUE, value |-> Append(acc, r.value), next |-> r.next + 1]
         ELSE JSONfail

Digits == {"0", "1", "2", "3", "4", "5", "6", "7", "8", "9"}

JSONparse(s) ==
    IF s = <<>> THEN JSONfail
    ELSE IF s = <<LB, RB>> THEN [ok |-> TRUE, isArray |-> TRUE, value |-> <<>>, next |-> 3]
    ELSE IF s[1] = LB THEN JSONparseElements(s, 2, <<>>)
    ELSE IF s[1] = QT
         THEN LET r == JSONparseString(s, 2, <<>>) IN
              IF r.ok /\ r.next = Len(s) + 1 THEN [r EXCEPT !.value = <<>>] ELSE JSONfail
    ELSE IF s = <<"{", "}">> \/ (\A k \in 1..Len(s) : s[k] \in Digits /\ (Len(s) > 1 => s[1] # "0"))
         THEN [ok |-> TRUE, isArray |-> FALSE, value |-> <<>>, next |-> Len(s) + 1]
    ELSE JSONfail

(***************************************************************************)
(* CommandLineHistory                                                      *)
(***************************************************************************)
\* Array.prototype.indexOf, 1-based; 0 when absent
indexOf(h, e) ==
    IF \E k \in 1..Len(h) : h[k] = e
    THEN CHOOSE k \in 1..Len(h) : h[k] = e /\ \A j \in 1..(k - 1) : h[j] # e
    ELSE 0

\* splice that removes nothing
splice_keepsEntry(h, k) == h

\* splice(index, 1)
splice(h, k) == SubSeq(h, 1, k - 1) \o SubSeq(h, k + 1, Len(h))

\* slice(start) for a 0-based start in 0..length
slice(h, start) == SubSeq(h, start + 1, Len(h))

\* resize that keeps the oldest entries instead of the newest
resize_keepsOldest(h, n) == IF Len(h) > n THEN SubSeq(h, 1, n) ELSE h

\* "resize array if necessary"
resize(h, n) == IF Len(h) > n THEN slice(h, Len(h) - n) ELSE h

\* clear without its try/catch: the unlink error escapes
clear_uncaught(f, unlinkOk) ==
    [file |-> IF f.exists /\ unlinkOk THEN NoFile ELSE f, threw |-> ~(f.exists /\ unlinkOk)]

\* clear(): unlinkSync inside try/catch; the error is logged, never raised
clear(f, unlinkOk) ==
    [file |-> IF f.exists /\ unlinkOk THEN NoFile ELSE f, threw |-> FALSE]

\* save that writes the list's toString() instead of its JSON
save_plainJoin(h, d, f, mkdirOk, writeOk) ==
    LET d1 == d \/ mkdirOk
        written == d1 /\ writeOk
    IN [dir |-> d1,
        file |-> IF written THEN FileOf(JSONjoin(h)) ELSE f,
        wrote |-> written,
        rejected |-> ~written,
        threw |-> FALSE]

\* save whose executor lets the failure of a file operation out
save_rethrows(h, d, f, mkdirOk, writeOk) ==
    LET d1 == d \/ mkdirOk
        written == d1 /\ writeOk
    IN [dir |-> d1,
        file |-> IF written THEN FileOf(JSONstringify(h)) ELSE f,
        wrote |-> written,
        rejected |-> FALSE,
        threw |-> ~written]

\* save(): the promise executor runs synchronously; failures reject the promise
save(h, d, f, mkdirOk, writeOk) ==
    LET d1 == d \/ mkdirOk
        written == d1 /\ writeOk
    IN [dir |-> d1,
        file |-> IF written THEN FileOf(JSONstringify(h)) ELSE f,
        wrote |-> written,
        rejected |-> ~written,
        threw |-> FALSE]

\* add that appends without removing the earlier equal entry
addList_noDedup(h, command, n) ==
    IF command = <<>> THEN h ELSE resize(Append(h, command), n)

\* the list add() leaves in _history
addList(h, command, n) ==
    IF command = <<>> THEN h
    ELSE LET index == indexOf(h, command)
             h1 == IF index # 0 THEN splice(h, index) ELSE h
         IN resize(Append(h1, command), n)

\* get()
get(h, n) == resize(h, n)

\* _loadFromFile(): what the constructor leaves in _history and on disk
loadFromFile(f, readOk, unlinkOk) ==
    LET enoent == ~f.exists
        data == IF f.exists /\ readOk THEN f.data ELSE <<>>
        parsed == JSONparse(data)
    IN IF ~enoent /\ ~readOk THEN [history |-> <<>>, file |-> f, threw |-> FALSE, corrupted |-> FALSE]
       ELSE IF Len(data) = 0 THEN [history |-> <<>>, file |-> f, threw |-> FALSE, corrupted |-> FALSE]
       ELSE IF parsed.ok /\ parsed.isArray
            THEN [history |-> parsed.value, file |-> f, threw |-> FALSE, corrupted |-> FALSE]
       ELSE LET c == clear(f, unlinkOk) IN
            [history |-> <<>>, file |-> c.file, threw |-> c.threw, corrupted |-> TRUE]

NoOp == [op |-> "none", arg |-> <<>>, pre |-> <<>>, preFile |-> NoFile,
         readOk |-> TRUE, unlinkOk |-> TRUE, wrote |-> FALSE, threw |-> FALSE]

\* new CommandLineHistory(historyDir)
Construct(f, readOk, unlinkOk) ==
    LET l == loadFromFile(f, readOk, unlinkOk) IN
    /\ history' = l.history
    /\ file' = l.file
    /\ hOp' = [NoOp EXCEPT !.op = "construct", !.preFile = f, !.readOk = readOk,
                           !.unlinkOk = unlinkOk, !.threw = l.threw]

InitHistory ==
    /\ cap \in 0..MaxCap
    /\ \E f \in InitFiles, readOk \in BOOLEAN, unlinkOk \in BOOLEAN :
         LET l == loadFromFile(f, readOk, unlinkOk) IN
         /\ history = l.history
         /\ file = l.file
         /\ dir \in (IF f.exists THEN {TRUE} ELSE BOOLEAN)
         /\ hOp = [NoOp EXCEPT !.op = "construct", !.preFile = f, !.readOk = readOk,
                               !.unlinkOk = unlinkOk, !.threw = l.threw]

\* a later session constructs its store on the same directory
Restart ==
    /\ \E readOk \in BOOLEAN, unlinkOk \in BOOLEAN : Construct(file, readOk, unlinkOk)
    /\ UNCHANGED <<dir, cap>>

Add ==
    \E command \in Entries, mkdirOk \in BOOLEAN, writeOk \in BOOLEAN :
        LET h == addList(history, command, cap)
            s == save(h, dir, file, mkdirOk, writeOk)
        IN /\ history' = h
           /\ IF command = <<>>
              THEN /\ UNCHANGED <<file, dir>>
                   /\ hOp' = [NoOp EXCEPT !.op = "add", !.arg = command, !.pre = history]
              ELSE /\ file' = s.file
                   /\ dir' = s.dir
                   /\ hOp' = [NoOp EXCEPT !.op = "add", !.arg = command, !.pre = history,
                                          !.wrote = s.wrote, !.threw = s.threw]
           /\ UNCHANGED cap

Get ==
    /\ history' = get(history, cap)
    /\ hOp' = [NoOp EXCEPT !.op = "get", !.pre = history]
    /\ UNCHANGED <<file, dir, cap>>

\* clear() that forgets the entries in memory as well
Clear_forgets ==
    \E unlinkOk \in BOOLEAN :
        LET c == clear(file, unlinkOk) IN
        /\ file' = c.file
        /\ history' = <<>>
        /\ hOp' = [NoOp EXCEPT !.op = "clear", !.pre = history,
                               !.unlinkOk = unlinkOk, !.threw = c.threw]
        /\ UNCHANGED <<dir, cap>>

Clear ==
    \E unlinkOk \in BOOLEAN :
        LET c == clear(file, unlinkOk) IN
        /\ file' = c.file
        /\ hOp' = [NoOp EXCEPT !.op = "clear", !.pre = history,
                               !.unlinkOk = unlinkOk, !.threw = c.threw]
        /\ UNCHANGED <<history, dir, cap>>

\* configuration.reload() with a changed "history" setting
SetCap ==
    \E n \in 0..MaxCap :
        /\ n # cap
        /\ cap' = n
        /\ hOp' = [NoOp EXCEPT !.op = "setcap", !.pre = history]
        /\ UNCHANGED <<history, file, dir>>

(***************************************************************************)
(* Tokens and the editor                                                   *)
(***************************************************************************)
Tok(type, content) == [type |-> type, content |-> content]

Pos(line, character) == [line |-> line, character |-> character]

\* Position.isBeforeOrEqual / isAfter
isBeforeOrEqual(p, q) == p.line < q.line \/ (p.line = q.line /\ p.character <= q.character)
isAfter(p, q) == ~isBeforeOrEqual(p, q)

\* Selection.start / Selection.end of a selection [anchor, active]
selStart(sel) == IF isBeforeOrEqual(sel.anchor, sel.active) THEN sel.anchor ELSE sel.active
selEnd(sel) == IF isBeforeOrEqual(sel.anchor, sel.active) THEN sel.active ELSE sel.anchor

SetMin(S) == CHOOSE m \in S : \A k \in S : m <= k
SetMax(S) == CHOOSE m \in S : \A k \in S : m >= k

DigitValue(c) ==
    CASE c = "0" -> 0 [] c = "1" -> 1 [] c = "2" -> 2 [] c = "3" -> 3 [] c = "4" -> 4
      [] c = "5" -> 5 [] c = "6" -> 6 [] c = "7" -> 7 [] c = "8" -> 8 [] c = "9" -> 9

\* Number.parseInt(content, 10) of a run of decimal digits
RECURSIVE parseInt(_)
parseInt(content) ==
    IF content = <<>> THEN 0
    ELSE 10 * parseInt(SubSeq(content, 1, Len(content) - 1)) + DigitValue(content[Len(content)])

\* historyTracker.getMark(name): <<mark>> when set, <<>> (undefined) otherwise
getMark(mk, name) == IF name \in DOMAIN mk THEN mk[name] ELSE <<>>

(***************************************************************************)
(* node.LineRange                                                          *)
(***************************************************************************)
EmptyRange == [left |-> <<>>, separator |-> <<>>, right |-> <<>>]

\* addToken that appends to the right side whatever it holds
addToken_rightUnchecked(r, tok) ==
    IF tok.type = "Comma" THEN [range |-> [r EXCEPT !.separator = <<tok>>], threw |-> FALSE]
    ELSE IF r.separator = <<>>
         THEN IF Len(r.left) > 0 /\ tok.type # "Offset"
              THEN [range |-> r, threw |-> TRUE]
              ELSE [range |-> [r EXCEPT !.left = Append(r.left, tok)], threw |-> FALSE]
         ELSE [range |-> [r EXCEPT !.right = Append(r.right, tok)], threw |-> FALSE]

\* addToken(tok): the range afterwards and whether 'not a Vim command' was thrown
addToken(r, tok) ==
    IF tok.type = "Comma" THEN [range |-> [r EXCEPT !.separator = <<tok>>], threw |-> FALSE]
    ELSE IF r.separator = <<>>
         THEN IF Len(r.left) > 0 /\ tok.type # "Offset"
              THEN [range |-> r, threw |-> TRUE]
              ELSE [range |-> [r EXCEPT !.left = Append(r.left, tok)], threw |-> FALSE]
         ELSE IF Len(r.right) > 0 /\ tok.type # "Offset"
              THEN [range |-> r, threw |-> TRUE]
              ELSE [range |-> [r EXCEPT !.right = Append(r.right, tok)], threw |-> FALSE]

\* get isEmpty
rangeIsEmpty(r) == Len(r.left) = 0 /\ Len(r.right) = 0 /\ r.separator = <<>>

\* a numeric address that stops at the last line
lineNumberToLine_lastLine(content, lineCount) ==
    LET line0 == parseInt(content)
        line1 == IF line0 - 1 > 0 THEN line0 - 1 ELSE 0
    IN IF lineCount - 1 < line1 THEN lineCount - 1 ELSE line1

\* the LineNumber case: Math.min(lineCount, Math.max(0, Number.parseInt(content, 10) - 1))
lineNumberToLine(content, lineCount) ==
    LET line0 == parseInt(content)
        line1 == IF line0 - 1 > 0 THEN line0 - 1 ELSE 0
    IN IF lineCount < line1 THEN lineCount ELSE line1

\* a first line taken from the primary selection alone
selectionFirstLine_primary(sels) == selStart(sels[1]).line

\* the SelectionFirstLine case: Math.min over doc.selections
selectionFirstLine(sels) ==
    SetMin({ IF isBeforeOrEqual(selStart(sels[k]), selEnd(sels[k]))
             THEN selStart(sels[k]).line ELSE selEnd(sels[k]).line
             : k \in 1..Len(sels) })

\* lineRefToPosition(doc, toks, vimState): the position, or an exception
lineRefToPosition(buf, sels, mk, toks) ==
    IF toks = <<>> THEN [threw |-> TRUE, pos |-> Pos(0, 0)]
    ELSE LET first == toks[1] IN
         CASE first.type \in {"Dollar", "Percent"} ->
                [threw |-> FALSE, pos |-> Pos(Len(buf) - 1, 0)]
           [] first.type = "Dot" ->
                [threw |-> FALSE, pos |-> Pos(sels[1].active.line, 0)]
           [] first.type = "LineNumber" ->
                [threw |-> FALSE, pos |-> Pos(lineNumberToLine(first.content, Len(buf)), 0)]
           [] first.type = "SelectionFirstLine" ->
                [threw |-> FALSE, pos |-> Pos(selectionFirstLine(sels), 0)]
           [] first.type = "SelectionLastLine" ->
                [threw |-> FALSE,
                 pos |-> Pos(SetMax({ IF isAfter(selStart(sels[k]), selEnd(sels[k]))
                                      THEN selStart(sels[k]).line ELSE selEnd(sels[k]).line
                                      : k \in 1..Len(sels) }), 0)]
           [] first.type = "Mark" ->
                LET m == getMark(mk, first.content) IN
                IF m = <<>> THEN [threw |-> TRUE, pos |-> Pos(0, 0)]
                ELSE [threw |-> FALSE, pos |-> m[1]]
           [] OTHER -> [threw |-> TRUE, pos |-> Pos(0, 0)]

\* execute that resolves the left side whenever it is non-empty
rangeExecute_leftFirst(r, buf, sels, mk, cur, curStart) ==
    IF rangeIsEmpty(r)
    THEN [threw |-> FALSE, resolved |-> FALSE, cursorPosition |-> cur, cursorStartPosition |-> curStart]
    ELSE LET lineRef == IF Len(r.left) = 0 THEN r.right ELSE r.left
             p == lineRefToPosition(buf, sels, mk, lineRef)
         IN IF p.threw
            THEN [threw |-> TRUE, resolved |-> FALSE, cursorPosition |-> cur,
                  cursorStartPosition |-> curStart]
            ELSE [threw |-> FALSE, resolved |-> TRUE, cursorPosition |-> p.pos,
                  cursorStartPosition |-> p.pos]

\* LineRange.execute(document, vimState): the cursor afterwards, or an exception
rangeExecute(r, buf, sels, mk, cur, curStart) ==
    IF rangeIsEmpty(r)
    THEN [threw |-> FALSE, resolved |-> FALSE, cursorPosition |-> cur, cursorStartPosition |-> curStart]
    ELSE LET lineRef == IF Len(r.right) = 0 THEN r.left ELSE r.right
             p == lineRefToPosition(buf, sels, mk, lineRef)
         IN IF p.threw
            THEN [threw |-> TRUE, resolved |-> FALSE, cursorPosition |-> cur,
                  cursorStartPosition |-> curStart]
            ELSE [threw |-> FALSE, resolved |-> TRUE, cursorPosition |-> p.pos,
                  cursorStartPosition |-> p.pos]

(***************************************************************************)
(* node.CommandLine and node.CommandBase                                   *)
(***************************************************************************)
NoCommand == [name |-> "none", neovimCapable |-> FALSE, withRange |-> FALSE]

EmptyCommandLine == [range |-> EmptyRange, command |-> NoCommand]

\* which entry point CommandLine.execute takes
executePath(node) ==
    IF node.command.name = "none" THEN "range"
    ELSE IF rangeIsEmpty(node.range) THEN "execute"
    ELSE "executeWithRange"

NoROp == [op |-> "none", threw |-> FALSE, preCursor |-> Pos(0, 0), preStart |-> Pos(0, 0),
          preBuffer |-> <<>>]

\* the tokens the parser hands to addToken
TokenInputs ==
    { Tok("LineNumber", <<"0">>), Tok("LineNumber", <<"1">>), Tok("LineNumber", <<"2">>),
      Tok("LineNumber", <<"1", "0">>),
      Tok("Dot", <<".">>), Tok("Dollar", <<"$">>), Tok("Percent", <<"%">>),
      Tok("Comma", <<",">>), Tok("Offset", <<"+", "1">>),
      Tok("SelectionFirstLine", <<"<">>), Tok("SelectionLastLine", <<">">>),
      Tok("Mark", <<"a">>), Tok("Mark", <<"b">>) }

CountOffsets(toks) == Cardinality({ k \in 1..Len(toks) : toks[k].type = "Offset" })

\* the parser adds one token to the range of the node it is building
AddToken ==
    \E tok \in TokenInputs :
        LET a == addToken(cmdLine.range, tok) IN
        /\ rOp.op # "execute"
        /\ CountOffsets(a.range.left) <= MaxOffsets
        /\ CountOffsets(a.range.right) <= MaxOffsets
        /\ cmdLine' = [cmdLine EXCEPT !.range = a.range]
        /\ rOp' = [NoROp EXCEPT !.op = "addToken", !.threw = a.threw]
        /\ UNCHANGED evars

\* CommandLine.execute(document, vimState) of a node without a command
ExecuteNode ==
    /\ rOp.op # "execute"
    /\ executePath(cmdLine) = "range"
    /\ LET x == rangeExecute(cmdLine.range, buffer, selections, marks,
                             cursorPosition, cursorStartPosition) IN
       /\ cursorPosition' = x.cursorPosition
       /\ cursorStartPosition' = x.cursorStartPosition
       /\ rOp' = [NoROp EXCEPT !.op = "execute", !.threw = x.threw,
                               !.preCursor = cursorPosition,
                               !.preStart = cursorStartPosition, !.preBuffer = buffer]
    /\ UNCHANGED <<buffer, selections, marks, cmdLine>>

\* the next parse starts from new CommandLine()
NewCommandLine ==
    /\ rOp.op # "none"
    /\ cmdLine' = EmptyCommandLine
    /\ rOp' = NoROp
    /\ UNCHANGED evars

LineText(k) ==
    CASE k = 1 -> <<"a", "b", "a">> [] k = 2 -> <<"a", "b">> [] k = 3 -> <<"b">> [] OTHER -> <<"a">>

Buffers == { [k \in 1..n |-> LineText(k)] : n \in 1..MaxLines }

InitEditor ==
    /\ buffer \in Buffers
    /\ \E s \in {0, Len(buffer) - 1}, c \in {0, Len(buffer) - 1}, more \in BOOLEAN :
         /\ cursorStartPosition = Pos(s, 0)
         /\ cursorPosition = Pos(c, 0)
         /\ selections =
              <<[anchor |-> Pos(s, 0), active |-> Pos(c, 0)]>>
              \o (IF more THEN <<[anchor |-> Pos(Len(buffer) - 1, 0), active |-> Pos(0, 0)]>>
                  ELSE <<>>)
    /\ marks = (<<"a">> :> <<Pos(Len(buffer) - 1, 1)>>)

\* one fixed editor, for the specifications that are not about it
IdleEditor ==
    /\ buffer = [k \in 1..2 |-> LineText(k)]
    /\ cursorStartPosition = Pos(0, 0)
    /\ cursorPosition = Pos(0, 0)
    /\ selections = <<[anchor |-> Pos(0, 0), active |-> Pos(0, 0)]>>
    /\ marks = (<<"a">> :> <<Pos(0, 0)>>)

IdleNode == cmdLine = EmptyCommandLine /\ rOp = NoROp

IdleHistory ==
    /\ history = <<>>
    /\ file = NoFile
    /\ dir = TRUE
    /\ cap = MaxCap
    /\ hOp = NoOp

(***************************************************************************)
(* The parser (cmd_line/parser.ts, lexer.ts, subparser.ts): tokens of the  *)
(* range, then the command name looked up by unambiguous prefix            *)
(***************************************************************************)
RECURSIVE digitsEnd(_, _)
digitsEnd(text, i) ==
    IF i <= Len(text) /\ text[i] \in Digits THEN digitsEnd(text, i + 1) ELSE i

Letters == {"a", "b", "e", "i", "q", "r", "s", "t", "u", "w", "x"}

RECURSIVE lettersEnd(_, _)
lettersEnd(text, i) ==
    IF i <= Len(text) /\ text[i] \in Letters THEN lettersEnd(text, i + 1) ELSE i

\* the address token at position i, or the start of the command
lexToken(text, i) ==
    LET c == text[i]
        one(type) == [kind |-> "token", tok |-> Tok(type, <<c>>), next |-> i + 1]
    IN CASE c \in Digits ->
              [kind |-> "token", tok |-> Tok("LineNumber", SubSeq(text, i, digitsEnd(text, i) - 1)),
               next |-> digitsEnd(text, i)]
         [] c = "." -> one("Dot")
         [] c = "$" -> one("Dollar")
         [] c = "%" -> one("Percent")
         [] c = "," -> one("Comma")
         [] c \in {"+", "-"} ->
              [kind |-> "token", tok |-> Tok("Offset", SubSeq(text, i, digitsEnd(text, i + 1) - 1)),
               next |-> digitsEnd(text, i + 1)]
         [] c = "'" ->
              IF i + 1 <= Len(text) /\ text[i + 1] = "<"
              THEN [kind |-> "token", tok |-> Tok("SelectionFirstLine", <<"<">>), next |-> i + 2]
              ELSE IF i + 1 <= Len(text) /\ text[i + 1] = ">"
              THEN [kind |-> "token", tok |-> Tok("SelectionLastLine", <<">">>), next |-> i + 2]
              ELSE IF i + 1 <= Len(text) /\ text[i + 1] \in Letters
              THEN [kind |-> "token", tok |-> Tok("Mark", <<text[i + 1]>>), next |-> i + 2]
              ELSE [kind |-> "error", tok |-> Tok("Mark", <<>>), next |-> i + 1]
         [] OTHER -> [kind |-> "command", tok |-> Tok("CommandName", <<>>), next |-> i]

RECURSIVE parseLineRange(_, _, _)
parseLineRange(text, i, r) ==
    IF i > Len(text) THEN [threw |-> "none", range |-> r, next |-> i]
    ELSE LET t == lexToken(text, i) IN
         IF t.kind = "command" THEN [threw |-> "none", range |-> r, next |-> i]
         ELSE IF t.kind = "error" THEN [threw |-> "Error", range |-> r, next |-> i]
         ELSE LET a == addToken(r, t.tok) IN
              IF a.threw THEN [threw |-> "Error", range |-> r, next |-> i]
              ELSE parseLineRange(text, t.next, a.range)

IsPrefix(s, t) == Len(s) <= Len(t) /\ s = SubSeq(t, 1, Len(s))

\* WriteCommand: neovimCapable and executeWithRange are CommandBase's
WriteCommand == [name |-> "write", neovimCapable |-> FALSE, withRange |-> FALSE]

\* SubstituteCommand declares neovimCapable and implements executeWithRange
SubstituteCommand == [name |-> "substitute", neovimCapable |-> TRUE, withRange |-> TRUE]

parseCommand(text, i) ==
    IF i > Len(text) THEN [threw |-> "none", command |-> NoCommand]
    ELSE LET name == SubSeq(text, i, lettersEnd(text, i) - 1) IN
         IF name # <<>> /\ IsPrefix(name, <<"w", "r", "i", "t", "e">>)
         THEN [threw |-> "none", command |-> WriteCommand]
         ELSE IF name # <<>> /\ IsPrefix(name, <<"s", "u", "b", "s", "t", "i", "t", "u", "t", "e">>)
         THEN [threw |-> "none", command |-> SubstituteCommand]
         ELSE [threw |-> "E492", command |-> NoCommand]

\* parser.parse(command): the node, or the exception thrown
parse(text) ==
    LET r == parseLineRange(text, 1, EmptyRange)
        c == parseCommand(text, r.next)
    IN IF r.threw # "none" THEN [threw |-> r.threw, node |-> EmptyCommandLine]
       ELSE IF c.threw # "none" THEN [threw |-> c.threw, node |-> EmptyCommandLine]
       ELSE [threw |-> "none", node |-> [range |-> r.range, command |-> c.command]]

(***************************************************************************)
(* CommandLine.Run                                                         *)
(***************************************************************************)
\* the command lines handed to Run
RunTexts ==
    { <<>>, <<":">>, <<":", "w">>, <<"s">>, <<"2", "w">>, <<"$">>, <<"'", "b">>, <<"q">> }

\* Run that keeps the leading ':'
strip_keepsColon(command) == command

\* one leading ':' is removed
strip(command) == IF command # <<>> /\ command[1] = ":" THEN Tail(command) ELSE command

\* useNeovim without the capability test
useNeovim_anyCommand(enabled, command) == enabled /\ command.name # "none"

\* const useNeovim = configuration.enableNeovim && cmd.command && cmd.command.neovimCapable
useNeovim(enabled, command) == enabled /\ command.name # "none" /\ command.neovimCapable

\* catch block that falls back on E492 without reading enableNeovim
onCatch_alwaysFallback(e, enabled) ==
    IF e \in {"E492", "VimError"}
    THEN (IF e = "E492" THEN "fallback" ELSE "status")
    ELSE "message"

\* the catch block: what Run does with the exception e
onCatch(e, enabled) ==
    IF e \in {"E492", "VimError"}
    THEN (IF e = "E492" /\ enabled THEN "fallback" ELSE "status")
    ELSE "message"

IdleRun == [pc |-> "idle", input |-> <<>>, command |-> <<>>, result |-> "none",
            parsed |-> "none", caught |-> "none", enabledAtCatch |-> FALSE,
            status |-> <<>>, message |-> "none", nvimCalls |-> <<>>, localExecs |-> 0,
            direct |-> FALSE, enabledAtDispatch |-> FALSE, undefined |-> FALSE]

NvimCall(command, enabled) == [command |-> command, enabled |-> enabled]

\* the run record once the catch block has handled e
Caught(r, e, enabled) ==
    LET h == onCatch(e, enabled)
        r1 == [r EXCEPT !.caught = e, !.enabledAtCatch = enabled]
    IN CASE h = "fallback" ->
              [r1 EXCEPT !.pc = "fallback",
                         !.nvimCalls = Append(@, NvimCall(r.command, enabled))]
         [] h = "status" ->
              [r1 EXCEPT !.pc = "idle", !.result = "resolved",
                         !.status = <<[err |-> e, command |-> r.command]>>]
         [] OTHER ->
              [r1 EXCEPT !.pc = "idle", !.result = "resolved", !.message = e]

\* if (!command || command.length === 0) that lets an undefined command through
noCommand_onlyEmptyText(given) == given # <<>> /\ given[1] = <<>>

\* if (!command || command.length === 0): given is <<text>>, or <<>> for undefined
noCommand(given) == given = <<>> \/ given[1] = <<>>

\* Run up to its first await: early return, strip, history, parse, dispatch
RunCall(given) ==
        /\ IF noCommand(given)
           THEN /\ run' = [IdleRun EXCEPT !.result = "resolved", !.undefined = (given = <<>>)]
                /\ UNCHANGED <<hvars, rvars, historyIndex>>
           ELSE LET input == IF given = <<>> THEN <<>> ELSE given[1]
                    command == strip(input)
                    h == addList(history, command, cap)
                    sv == save(h, dir, file, TRUE, TRUE)
                    p == parse(command)
                    r0 == [IdleRun EXCEPT !.input = input, !.command = command,
                                          !.parsed = IF p.threw = "none" THEN "ok" ELSE "threw",
                                          !.enabledAtDispatch = enableNeovim,
                                          !.undefined = (given = <<>>)]
                IN /\ history' = get(h, cap)
                   /\ file' = IF command = <<>> THEN file ELSE sv.file
                   /\ dir' = IF command = <<>> THEN dir ELSE sv.dir
                   /\ hOp' = [NoOp EXCEPT !.op = "add", !.arg = command,
                                          !.wrote = (command # <<>> /\ sv.wrote)]
                   /\ historyIndex' = Len(get(h, cap))
                   /\ cmdLine' = p.node
                   /\ rOp' = NoROp
                   /\ run' = IF p.threw # "none" THEN Caught(r0, p.threw, enableNeovim)
                             ELSE IF useNeovim(enableNeovim, p.node.command)
                             THEN [r0 EXCEPT !.pc = "nvim", !.direct = TRUE,
                                             !.nvimCalls = <<NvimCall(command, enableNeovim)>>]
                             ELSE [r0 EXCEPT !.pc = "exec"]
                   /\ UNCHANGED cap
        /\ spawn' = [spawn EXCEPT !.runAfter = spawn.failed]
        /\ UNCHANGED <<evars, enableNeovim>>

\* commandLine.Run(command, vimState) is called
RunStart ==
    /\ run.pc = "idle"
    /\ \E input \in RunTexts : RunCall(<<input>>)

\* PromptAndRun up to 'await vscode.window.showInputBox(...)'
PromptAndRun ==
    /\ run.pc = "idle"
    /\ run' = [IdleRun EXCEPT !.pc = "prompt"]
    /\ UNCHANGED <<hvars, evars, rvars, enableNeovim, historyIndex, spawn>>

\* the prompt returns the text typed, or undefined when it was abandoned: Run(cmd!, vimState)
PromptReturns ==
    /\ run.pc = "prompt"
    /\ \E given \in {<<>>} \cup { <<t>> : t \in RunTexts } :
         RunCall(given)

\* what cmd.execute(editor, vimState) can end with
ExecOutcomes(node, x) ==
    IF executePath(node) = "range" THEN {IF x.threw THEN "Error" ELSE "ok"}
    ELSE IF executePath(node) = "executeWithRange" /\ ~node.command.withRange THEN {"Error"}
    ELSE {"ok", "E492", "VimError", "Error"}

\* await cmd.execute(vimState.editor, vimState), and the catch block after it
LocalExec ==
    /\ run.pc = "exec"
    /\ LET x == rangeExecute(cmdLine.range, buffer, selections, marks,
                             cursorPosition, cursorStartPosition)
           r1 == [run EXCEPT !.localExecs = @ + 1]
       IN \E outcome \in ExecOutcomes(cmdLine, x) :
            /\ IF executePath(cmdLine) = "range"
               THEN /\ cursorPosition' = x.cursorPosition
                    /\ cursorStartPosition' = x.cursorStartPosition
                    /\ rOp' = [NoROp EXCEPT !.op = "execute", !.threw = x.threw,
                                            !.preCursor = cursorPosition,
                                            !.preStart = cursorStartPosition,
                                            !.preBuffer = buffer]
               ELSE UNCHANGED <<cursorPosition, cursorStartPosition, rOp>>
            /\ run' = IF outcome = "ok"
                      THEN [r1 EXCEPT !.pc = "idle", !.result = "resolved"]
                      ELSE Caught(r1, outcome, enableNeovim)
    /\ UNCHANGED <<hvars, buffer, selections, marks, cmdLine, enableNeovim, historyIndex, spawn>>

\* the documents the backend hands back
BackendBuffers(buf) == {buf, [k \in 1..1 |-> LineText(3)]}

\* what Neovim.run leaves in the editor: the buffer and the selection read back
BackendEffect ==
    \E b \in BackendBuffers(buffer) : \E row \in {1, Len(b)} :
        /\ buffer' = b
        /\ selections' = <<[anchor |-> Pos(row - 1, 0), active |-> Pos(row - 1, 0)]>>

\* await vimState.nvim.run(vimState, command) in the try block ends
NvimReturns ==
    /\ run.pc = "nvim"
    /\ BackendEffect
    /\ \E ok \in BOOLEAN :
         run' = IF ok
                THEN [run EXCEPT !.pc = "idle", !.result = "resolved",
                                 !.status = <<[err |-> "nvim", command |-> run.command]>>]
                ELSE Caught(run, "Error", enableNeovim)
    /\ UNCHANGED <<hvars, rvars, cursorPosition, cursorStartPosition, marks,
                   enableNeovim, historyIndex, spawn>>

\* await vimState.nvim.run(vimState, command) in the catch block ends
FallbackReturns ==
    /\ run.pc = "fallback"
    /\ BackendEffect
    /\ \E ok \in BOOLEAN :
         run' = IF ok
                THEN [run EXCEPT !.pc = "idle", !.result = "resolved",
                                 !.status = <<[err |-> "nvim", command |-> run.command]>>]
                ELSE [run EXCEPT !.pc = "idle", !.result = "rejected"]
    /\ UNCHANGED <<hvars, rvars, cursorPosition, cursorStartPosition, marks,
                   enableNeovim, historyIndex, spawn>>

\* the spawn 'error' handler of Neovim.initialize
SpawnError ==
    /\ enableNeovim
    /\ enableNeovim' = FALSE
    /\ spawn' = [spawn EXCEPT !.failed = TRUE]
    /\ UNCHANGED <<hvars, evars, rvars, historyIndex, run>>

\* onDidChangeConfiguration: configuration.reload() with the setting switched on
ConfigurationReload ==
    /\ ~enableNeovim
    /\ enableNeovim' = TRUE
    /\ UNCHANGED <<hvars, evars, rvars, historyIndex, run, spawn>>

NoSpawnError == [failed |-> FALSE, runAfter |-> FALSE]

IdleCommandLine ==
    enableNeovim = FALSE /\ historyIndex = 0 /\ run = IdleRun /\ spawn = NoSpawnError

(***************************************************************************)
(* The substitute command (cmd_line/commands/substitute.ts and its         *)
(* subparser) and the searches it reuses; patterns are literal texts       *)
(***************************************************************************)
\* most searches made before a substitute
MaxSearches == 2

Foo == <<"f", "o", "o">>
Bar == <<"b", "a", "r">>
Fighters == <<"f", "i", "g", "h", "t", "e", "r", "s">>

NoMarks == (<<"a">> :> <<>>) @@ (<<"b">> :> <<>>)

Scene(buf, start, cur, sel, mk) ==
    [buffer |-> buf, cursorStartPosition |-> start, cursorPosition |-> cur,
     selections |-> <<sel>>, marks |-> mk]

Caret(p) == [anchor |-> p, active |-> p]

\* the editors the substitute tests build with their keystrokes
SubstituteScenes ==
    [single |-> Scene(<<<<"a", "b", "a">>>>, Pos(0, 2), Pos(0, 2), Caret(Pos(0, 2)), NoMarks),
     lines |-> Scene(<<<<"a", "b", "a">>, <<"a", "b">>>>, Pos(1, 1), Pos(1, 1),
                     Caret(Pos(1, 1)), NoMarks),
     selection |-> Scene(<<<<"a", "b", "a">>, <<"a", "b">>>>, Pos(1, 1), Pos(0, 0),
                         [anchor |-> Pos(1, 2), active |-> Pos(0, 0)], NoMarks),
     marked |-> Scene(<<<<"a", "b", "c">>, <<"a", "b", "c">>, <<"a", "b", "c">>>>,
                      Pos(1, 0), Pos(1, 0), Caret(Pos(1, 0)),
                      (<<"a">> :> <<Pos(0, 0)>>) @@ (<<"b">> :> <<Pos(1, 0)>>)),
     escaped |-> Scene(<<<<"b", "/", "/", "f">>>>, Pos(0, 3), Pos(0, 3), Caret(Pos(0, 3)),
                       NoMarks),
     words |-> Scene(<<Foo, Bar, Foo, Bar>>, Pos(3, 2), Pos(3, 2), Caret(Pos(3, 2)), NoMarks)]

SceneNames == DOMAIN SubstituteScenes

\* the command lines the substitute tests run
SubstituteTexts ==
    { <<"%", "s", "/", "a", "/", "d">>,
      <<"%", "s", "/", "a", "/", "d", "/">>,
      <<"%", "s", "/", "a", "/", "d", "/", "g">>,
      <<"1", ",", "1", "s", "/", "a", "/", "d", "/">>,
      <<"1", ",", "1", "s", "/", "a", "/", "d", "/", "g">>,
      <<"s", "/", "a", "/", "d", "/">>,
      <<"s", "/", "a", "/", "d", "/", "g">>,
      <<"'", "<", ",", "'", ">", "s", "/", "a", "/", "d", "/">>,
      <<"'", "<", ",", "'", ">", "s", "/", "a", "/", "d", "/", "g">>,
      <<"'", "a", ",", "'", "b", "s", "/", "a", "/", "d", "/">>,
      <<"'", "a", ",", "'", "b", "s", "/", "a", "/", "d", "/", "g">>,
      <<"s", "/", BSL, "/", BSL, "/", "f", "/", "z", "/", "g">>,
      <<"%", "s", "/", "/">> \o Fighters }

\* the subparser: one field up to the next delimiter that no backslash escapes
RECURSIVE scanField(_, _, _, _)
scanField(text, i, delim, acc) ==
    IF i > Len(text) THEN [field |-> acc, next |-> i]
    ELSE IF text[i] = BSL /\ i + 1 <= Len(text) /\ text[i + 1] = delim
    THEN scanField(text, i + 2, delim, Append(acc, delim))
    ELSE IF text[i] = delim THEN [field |-> acc, next |-> i + 1]
    ELSE scanField(text, i + 1, delim, Append(acc, text[i]))

\* the arguments of substitute: text[i] is the delimiter
parseSubstituteArgs(text, i) ==
    IF i > Len(text) THEN [pattern |-> <<>>, replacement |-> <<>>, flags |-> <<>>]
    ELSE LET pat == scanField(text, i + 1, text[i], <<>>)
             rep == scanField(text, pat.next, text[i], <<>>)
         IN [pattern |-> pat.field, replacement |-> rep.field,
             flags |-> SubSeq(text, rep.next, Len(text))]

hasFlag(flags, f) == \E k \in 1..Len(flags) : flags[k] = f

\* the g flag that forces every match whatever the default
effectiveGlobal_gForcesAll(defaultGlobal, hasG) == defaultGlobal \/ hasG

\* effective-global = defaultGlobal XOR hasGFlag
effectiveGlobal(defaultGlobal, hasG) == defaultGlobal # hasG

\* the last pattern searched with '/', whatever was searched with '*' or '#' since
lastSearchPattern_forwardOnly(searches) ==
    LET fw == SelectSeq(searches, LAMBDA s : s.kind = "/") IN
    IF fw = <<>> THEN <<>> ELSE <<fw[Len(fw)].pattern>>

\* the pattern of the most recent search of any kind: <<pattern>>, or <<>> when none
lastSearchPattern(searches) ==
    IF searches = <<>> THEN <<>> ELSE <<searches[Len(searches)].pattern>>

\* the first index at or after from where pat occurs in line, or 0
RECURSIVE indexOfText(_, _, _)
indexOfText(line, pat, from) ==
    IF from + Len(pat) - 1 > Len(line) THEN 0
    ELSE IF SubSeq(line, from, from + Len(pat) - 1) = pat THEN from
    ELSE indexOfText(line, pat, from + 1)

\* the line with the first match at or after from replaced, and the later ones when all
RECURSIVE replaceFrom(_, _, _, _, _)
replaceFrom(line, pat, rep, from, all) ==
    LET k == indexOfText(line, pat, from) IN
    IF k = 0 THEN line
    ELSE LET new == SubSeq(line, 1, k - 1) \o rep \o SubSeq(line, k + Len(pat), Len(line))
         IN IF all THEN replaceFrom(new, pat, rep, k + Len(rep), all) ELSE new

\* scope that is the whole buffer whatever the range
substituteScope_wholeBuffer(r, buf, sels, mk, cur) ==
    [threw |-> FALSE, first |-> 0, last |-> Len(buf) - 1]

\* the lines a substitute works on: first..last, or an exception
substituteScope(r, buf, sels, mk, cur) ==
    IF rangeIsEmpty(r) THEN [threw |-> FALSE, first |-> cur.line, last |-> cur.line]
    ELSE IF r.left # <<>> /\ r.left[1].type = "Percent"
    THEN [threw |-> FALSE, first |-> 0, last |-> Len(buf) - 1]
    ELSE LET s == lineRefToPosition(buf, sels, mk, r.left)
             e == IF r.right = <<>> THEN s ELSE lineRefToPosition(buf, sels, mk, r.right)
         IN IF s.threw \/ e.threw THEN [threw |-> TRUE, first |-> 0, last |-> 0]
            ELSE [threw |-> FALSE,
                  first |-> IF s.pos.line <= e.pos.line THEN s.pos.line ELSE e.pos.line,
                  last |-> IF s.pos.line <= e.pos.line THEN e.pos.line ELSE s.pos.line]

\* the buffer after the substitute, or the failure
substitute(buf, scope, args, searches, defaultGlobal) ==
    LET pat == IF args.pattern = <<>> THEN lastSearchPattern(searches) ELSE <<args.pattern>>
        all == effectiveGlobal(defaultGlobal, hasFlag(args.flags, "g"))
    IN IF scope.threw \/ pat = <<>> THEN [threw |-> TRUE, buffer |-> buf]
       ELSE [threw |-> FALSE,
             buffer |-> [k \in 1..Len(buf) |->
                            IF scope.first <= k - 1 /\ k - 1 <= scope.last
                            THEN replaceFrom(buf[k], pat[1], args.replacement, 1, all)
                            ELSE buf[k]]]

NoSOp == [op |-> "none", text |-> <<>>, range |-> EmptyRange, args |-> parseSubstituteArgs(<<>>, 1),
          threw |-> FALSE, preBuffer |-> <<>>, preSearch |-> <<>>]

\* Run(text) of a substitute command line, executed locally, once the keystrokes of the
\* test have set the editor up
Substitute ==
    \E text \in SubstituteTexts :
        LET r == parseLineRange(text, 1, EmptyRange)
            args == parseSubstituteArgs(text, lettersEnd(text, r.next))
            scope == substituteScope(r.range, buffer, selections, marks, cursorPosition)
            x == substitute(buffer, scope, args, searchState, substituteGlobalFlag)
        IN /\ sOp.op = "none"
           /\ r.threw = "none"
           /\ parse(text).node.command = SubstituteCommand
           /\ buffer' = x.buffer
           /\ sOp' = [op |-> "substitute", text |-> text, range |-> r.range, args |-> args,
                      threw |-> x.threw, preBuffer |-> buffer, preSearch |-> searchState]
           /\ UNCHANGED <<cursorPosition, cursorStartPosition, selections, marks,
                          substituteGlobalFlag, searchState>>

\* the text of the line under the cursor: the word '*' and '#' search for
wordUnderCursor(buf, cur) == buf[cur.line + 1]

\* a search: '/' with a typed pattern, '*' or '#' with the word under the cursor
Search ==
    /\ sOp.op = "none"
    /\ Len(searchState) < MaxSearches
    /\ \E kind \in {"/", "*", "#"}, typed \in {Foo, Bar} :
         /\ kind # "/" => typed = wordUnderCursor(buffer, cursorPosition)
         /\ searchState' = Append(searchState, [kind |-> kind, pattern |-> typed])
    /\ UNCHANGED <<evars, substituteGlobalFlag, sOp>>

\* 'gg', '2gg', 'j': the cursor goes to another line
MoveCursor ==
    /\ sOp.op = "none"
    /\ \E line \in 0..(Len(buffer) - 1) :
         /\ line # cursorPosition.line
         /\ cursorPosition' = Pos(line, 0)
         /\ cursorStartPosition' = Pos(line, 0)
         /\ selections' = <<Caret(Pos(line, 0))>>
    /\ UNCHANGED <<buffer, marks, svars>>

\* Globals.mockConfiguration.substituteGlobalFlag = ...; reloadConfiguration()
SetSubstituteGlobalFlag ==
    /\ sOp.op = "none"
    /\ substituteGlobalFlag' = ~substituteGlobalFlag
    /\ UNCHANGED <<evars, searchState, sOp>>

\* setupWorkspace(): a test begins with one of the editors
InitSubstituteEditor ==
    \E n \in SceneNames :
        /\ buffer = SubstituteScenes[n].buffer
        /\ cursorStartPosition = SubstituteScenes[n].cursorStartPosition
        /\ cursorPosition = SubstituteScenes[n].cursorPosition
        /\ selections = SubstituteScenes[n].selections
        /\ marks = SubstituteScenes[n].marks

IdleSubstitute == substituteGlobalFlag = FALSE /\ searchState = <<>> /\ sOp = NoSOp

(***************************************************************************)
(* The backend bridge (neovim/neovim.ts): Neovim.run and Neovim.input,     *)
(* one action for each awaited call to the external process                *)
(***************************************************************************)
LT == <<"<", "l", "t", ">">>
ESC == <<"<", "e", "s", "c", ">">>

\* the command lines and keys handed to the bridge
BridgeTexts ==
    { <<"u">>,
      <<"'", "<", ",", "'", ">", "d">>,
      <<"'", "<", ",", "'", ">", "s", "/", "<", "/", "x">> }

\* the keys handed to Neovim.input
BridgeKeys == { <<"u">> }

\* String.prototype.replace with a string pattern: the first occurrence only
replace(s, pat, rep) ==
    LET k == indexOfText(s, pat, 1) IN
    IF k = 0 THEN s
    ELSE SubSeq(s, 1, k - 1) \o rep \o SubSeq(s, k + Len(pat), Len(s))

\* the text Neovim.run injects for command
injectedText(command) == replace(<<":">> \o command \o <<"\n">>, <<"<">>, LT)

\* Position.EarlierOf and Position.LaterOf
EarlierOf(p, q) == IF isBeforeOrEqual(p, q) THEN p ELSE q
LaterOf(p, q) == IF isBeforeOrEqual(p, q) THEN q ELSE p

\* the width of one indentation step (editor.tabSize)
TabSize == 2

TAB == "\t"
CR == "\r"

\* String.prototype.split with a one-character separator
RECURSIVE split(_, _)
split(text, sep) ==
    LET k == indexOfText(text, <<sep>>, 1) IN
    IF k = 0 THEN <<text>>
    ELSE <<SubSeq(text, 1, k - 1)>> \o split(SubSeq(text, k + 1, Len(text)), sep)

\* Array.prototype.join
RECURSIVE join(_, _)
join(lines, sep) ==
    IF lines = <<>> THEN <<>>
    ELSE IF Len(lines) = 1 THEN lines[1]
    ELSE lines[1] \o <<sep>> \o join(Tail(lines), sep)

\* the length of the leading run of spaces and tabs of line
RECURSIVE indentLength(_)
indentLength(line) ==
    IF line = <<>> \/ Head(line) \notin {" ", TAB} THEN 0 ELSE 1 + indentLength(Tail(line))

\* every run of TabSize spaces of the indentation ws becomes one tab, left to right
RECURSIVE spacesToTabs(_)
spacesToTabs(ws) ==
    IF ws = <<>> THEN <<>>
    ELSE IF Len(ws) >= TabSize /\ \A k \in 1..TabSize : ws[k] = " "
         THEN <<TAB>> \o spacesToTabs(SubSeq(ws, TabSize + 1, Len(ws)))
    ELSE <<Head(ws)>> \o spacesToTabs(Tail(ws))

\* every tab of the indentation ws becomes TabSize spaces
RECURSIVE tabsToSpaces(_)
tabsToSpaces(ws) ==
    IF ws = <<>> THEN <<>>
    ELSE (IF Head(ws) = TAB THEN [k \in 1..TabSize |-> " "] ELSE <<Head(ws)>>)
         \o tabsToSpaces(Tail(ws))

\* the command 'editor.action.indentationToTabs' run on the document
indentationToTabs(buf) ==
    [k \in DOMAIN buf |->
        LET n == indentLength(buf[k]) IN
        spacesToTabs(SubSeq(buf[k], 1, n)) \o SubSeq(buf[k], n + 1, Len(buf[k]))]

\* the command 'editor.action.indentationToSpaces' run on the document
indentationToSpaces(buf) ==
    [k \in DOMAIN buf |->
        LET n == indentLength(buf[k]) IN
        tabsToSpaces(SubSeq(buf[k], 1, n)) \o SubSeq(buf[k], n + 1, Len(buf[k]))]

\* fixedLines: on win32 each line loses one carriage return at its end
fixedLines(lines, win32) ==
    IF ~win32 THEN lines
    ELSE [k \in DOMAIN lines |->
            IF lines[k] # <<>> /\ lines[k][Len(lines[k])] = CR
            THEN SubSeq(lines[k], 1, Len(lines[k]) - 1)
            ELSE lines[k]]

\* syncVSToVim: the external process after the buffer, cursor and visual marks are pushed
syncVSToVim(nv, buf, cur, curStart) ==
    LET rangeStart == EarlierOf(cur, curStart)
        rangeEnd == LaterOf(cur, curStart)
    IN [nv EXCEPT !.lines = split(join(buf, "\n"), "\n"),
                  !.cursor = [row |-> cur.line + 1, character |-> cur.character],
                  !.visualStart = [row |-> rangeStart.line + 1, character |-> rangeEnd.character],
                  !.visualEnd = [row |-> rangeEnd.line + 1, character |-> rangeEnd.character]]

\* run that sends the cancel keystroke whatever mode is reported
bridgeNext_cancelAlways(op, pc, blocking, errEmpty) ==
    CASE op = "input" /\ pc = "syncOut" -> "inject"
      [] op = "input" /\ pc = "inject" -> "syncIn"
      [] pc = "syncOut" -> "clear"
      [] pc = "clear" -> "inject"
      [] pc = "inject" -> "getMode"
      [] pc = "getMode" -> "esc"
      [] pc = "esc" -> "readErr"
      [] pc = "readErr" -> IF errEmpty THEN "readStatus" ELSE "syncIn"
      [] pc = "readStatus" -> "syncIn"
      [] OTHER -> "idle"

\* the awaited call that follows pc in run and in input
bridgeNext(op, pc, blocking, errEmpty) ==
    CASE op = "input" /\ pc = "syncOut" -> "inject"
      [] op = "input" /\ pc = "inject" -> "syncIn"
      [] pc = "syncOut" -> "clear"
      [] pc = "clear" -> "inject"
      [] pc = "inject" -> "getMode"
      [] pc = "getMode" -> IF blocking THEN "esc" ELSE "readErr"
      [] pc = "esc" -> "readErr"
      [] pc = "readErr" -> IF errEmpty THEN "readStatus" ELSE "syncIn"
      [] pc = "readStatus" -> "syncIn"
      [] OTHER -> "idle"

\* syncVimToVs: the document and the selection after the external process is read back
syncVimToVs(nv, expandtab, win32) ==
    LET document == split(join(fixedLines(nv.lines, win32), "\n"), "\n")
        position == Pos(nv.cursor.row - 1, nv.cursor.character)
    IN [buffer |-> IF expandtab THEN indentationToSpaces(document) ELSE document,
        selection |-> [anchor |-> position, active |-> position]]

\* a clearing command that resets the error indicator alone
clearIndicators_errorOnly(nv) == [nv EXCEPT !.errmsg = <<>>]

\* the command 'let v:errmsg="" | let v:statusmsg=""'
clearIndicators(nv) == [nv EXCEPT !.errmsg = <<>>, !.statusmsg = <<>>]

NoIndicators == [errmsg |-> <<>>, statusmsg |-> <<>>]

\* expandtab and win32 are configuration.expandtab and process.platform as the call
\* reads them; preBuffer, untouched and produced record the document at the call,
\* whether the external process left what was pushed, and the indicators the
\* injected text made it set
IdleBridgeRun == [pc |-> "idle", op |-> "none", command |-> <<>>, injected |-> <<>>,
                  steps |-> <<>>, blocking |-> FALSE, errEmpty |-> TRUE,
                  statusBarText |-> <<>>, surfaced |-> <<>>, result |-> "none",
                  expandtab |-> FALSE, win32 |-> FALSE, preBuffer |-> <<>>,
                  untouched |-> FALSE, produced |-> NoIndicators]

IdleNvim == [lines |-> <<>>, cursor |-> [row |-> 1, character |-> 0],
             visualStart |-> [row |-> 1, character |-> 0],
             visualEnd |-> [row |-> 1, character |-> 0],
             errmsg |-> <<>>, statusmsg |-> <<>>, blocking |-> FALSE, received |-> <<>>]

\* the step at pc is done: it is logged and the next one awaited
Stepped(b, blocking, errEmpty) ==
    [b EXCEPT !.steps = Append(@, b.pc),
              !.pc = bridgeNext(b.op, b.pc, blocking, errEmpty)]

\* the awaited call at pc rejects: nothing in run or input catches it
Rejected(b) == [b EXCEPT !.pc = "idle", !.result = "rejected"]

\* vimState.nvim.run(vimState, command) or vimState.nvim.input(vimState, keys) is called
BridgeCall ==
    /\ bridge.pc = "idle"
    /\ \E op \in {"run", "input"}, expandtab, win32 \in BOOLEAN :
       \E command \in IF op = "run" THEN BridgeTexts ELSE BridgeKeys :
         bridge' = [IdleBridgeRun EXCEPT !.pc = "syncOut", !.op = op, !.command = command,
                                         !.expandtab = expandtab, !.win32 = win32,
                                         !.preBuffer = buffer]
    /\ nvim' = [nvim EXCEPT !.received = <<>>]
    /\ UNCHANGED <<evars, enableNeovim>>

\* await this.syncVSToVim(vimState), then the command text is built
BridgeSyncOut ==
    /\ bridge.pc = "syncOut"
    /\ \E ok \in BOOLEAN :
         IF ok
         THEN /\ buffer' = IF bridge.expandtab THEN indentationToTabs(buffer) ELSE buffer
              /\ nvim' = syncVSToVim(nvim, buffer', cursorPosition, cursorStartPosition)
              /\ bridge' = [Stepped(bridge, FALSE, TRUE) EXCEPT
                               !.injected = IF bridge.op = "run"
                                            THEN injectedText(bridge.command)
                                            ELSE bridge.command]
         ELSE /\ bridge' = Rejected(bridge)
              /\ UNCHANGED <<nvim, buffer>>
    /\ UNCHANGED <<cursorPosition, cursorStartPosition, selections, marks, enableNeovim>>

\* await this.nvim.command('let v:errmsg="" | let v:statusmsg=""')
BridgeClear ==
    /\ bridge.pc = "clear"
    /\ \E ok \in BOOLEAN :
         IF ok
         THEN /\ nvim' = clearIndicators(nvim)
              /\ bridge' = Stepped(bridge, FALSE, TRUE)
         ELSE /\ bridge' = Rejected(bridge)
              /\ UNCHANGED nvim
    /\ UNCHANGED <<evars, enableNeovim>>

\* await this.nvim.input(...): the external process takes the text and acts on it
BridgeInject ==
    /\ bridge.pc = "inject"
    /\ \E ok \in BOOLEAN :
         IF ok
         THEN \E b \in BackendBuffers(nvim.lines), err \in {<<>>, <<"E">>},
                 st \in {<<>>, <<"S">>}, blocking, untouched \in BOOLEAN :
                 \E row \in {1, Len(b)} :
                   /\ nvim' = [nvim EXCEPT
                         !.lines = IF untouched THEN @ ELSE b,
                         !.cursor = IF untouched THEN @ ELSE [row |-> row, character |-> 0],
                         !.errmsg = IF err # <<>> THEN err ELSE @,
                         !.statusmsg = IF st # <<>> THEN st ELSE @,
                         !.blocking = blocking,
                         !.received = Append(@, bridge.injected)]
                   /\ bridge' = [Stepped(bridge, FALSE, TRUE) EXCEPT
                         !.untouched = untouched,
                         !.produced = [errmsg |-> err, statusmsg |-> st]]
         ELSE /\ bridge' = Rejected(bridge)
              /\ UNCHANGED nvim
    /\ UNCHANGED <<evars, enableNeovim>>

\* (await this.nvim.getMode()).blocking
BridgeGetMode ==
    /\ bridge.pc = "getMode"
    /\ \E ok \in BOOLEAN :
         bridge' = IF ok
                   THEN [Stepped(bridge, nvim.blocking, TRUE) EXCEPT !.blocking = nvim.blocking]
                   ELSE Rejected(bridge)
    /\ UNCHANGED <<evars, enableNeovim, nvim>>

\* await this.nvim.input('<esc>')
BridgeEsc ==
    /\ bridge.pc = "esc"
    /\ \E ok \in BOOLEAN :
         IF ok
         THEN /\ nvim' = [nvim EXCEPT !.blocking = FALSE, !.received = Append(@, ESC)]
              /\ bridge' = Stepped(bridge, FALSE, TRUE)
         ELSE /\ bridge' = Rejected(bridge)
              /\ UNCHANGED nvim
    /\ UNCHANGED <<evars, enableNeovim>>

\* const errMsg = await this.nvim.getVvar('errmsg')
BridgeReadErr ==
    /\ bridge.pc = "readErr"
    /\ \E ok \in BOOLEAN :
         bridge' = IF ok
                   THEN [Stepped(bridge, FALSE, nvim.errmsg = <<>>) EXCEPT
                            !.errEmpty = (nvim.errmsg = <<>>),
                            !.statusBarText = nvim.errmsg]
                   ELSE Rejected(bridge)
    /\ UNCHANGED <<evars, enableNeovim, nvim>>

\* const statusMsg = await this.nvim.getVvar('statusmsg')
BridgeReadStatus ==
    /\ bridge.pc = "readStatus"
    /\ \E ok \in BOOLEAN :
         bridge' = IF ok
                   THEN [Stepped(bridge, FALSE, TRUE) EXCEPT !.statusBarText = nvim.statusmsg]
                   ELSE Rejected(bridge)
    /\ UNCHANGED <<evars, enableNeovim, nvim>>

\* await this.syncVimToVs(vimState), then StatusBar.SetText(statusBarText, ...) in run
BridgeSyncIn ==
    /\ bridge.pc = "syncIn"
    /\ \E ok \in BOOLEAN :
         IF ok
         THEN /\ buffer' = syncVimToVs(nvim, bridge.expandtab, bridge.win32).buffer
              /\ selections' = <<syncVimToVs(nvim, bridge.expandtab, bridge.win32).selection>>
              /\ bridge' = [Stepped(bridge, FALSE, TRUE) EXCEPT
                               !.result = "resolved",
                               !.steps = IF bridge.op = "run"
                                         THEN bridge.steps \o <<"syncIn", "surface">>
                                         ELSE bridge.steps \o <<"syncIn">>,
                               !.surfaced = IF bridge.op = "run"
                                            THEN <<bridge.statusBarText>> ELSE <<>>]
         ELSE /\ bridge' = Rejected(bridge)
              /\ UNCHANGED <<buffer, selections>>
    /\ UNCHANGED <<cursorPosition, cursorStartPosition, marks, enableNeovim, nvim>>

\* the documents of the bridge: plain lines, indentation of tabs and of spaces, and
\* lines that end in carriage returns
BridgeBuffers ==
    Buffers \cup
    { << <<TAB, "x">>, <<" ", " ", " ", "y">> >>,
      << <<"a", CR>>, <<"b", CR, CR>>, <<>> >> }

InitBridgeEditor ==
    /\ buffer \in BridgeBuffers
    /\ \E s \in {0, Len(buffer) - 1}, c \in {0, Len(buffer) - 1}, ch \in {0, 1} :
         /\ (s = 0 /\ ch = 0) \/ (s = c /\ ch = 1)
         /\ cursorStartPosition = Pos(s, 0)
         /\ cursorPosition = Pos(c, ch)
         /\ selections = <<[anchor |-> Pos(s, 0), active |-> Pos(c, ch)]>>
    /\ marks = (<<"a">> :> <<Pos(Len(buffer) - 1, 1)>>)

IdleBridge == nvim = IdleNvim /\ bridge = IdleBridgeRun

(***************************************************************************)
(* The extension's entry points (extension.ts): getAndUpdateModeHandler,   *)
(* the 'type' override and 'vim.remap', which enqueue their work on the    *)
(* task queue, and 'vim.showQuickpickCmdLine', which does not              *)
(***************************************************************************)
\* the entry points whose callback wraps its work in taskQueue.enqueueTask
Enqueued == {"type", "remap"}

EntryPoints == {"type", "remap", "quickpick"}

IdleProc == [pc |-> "idle", delegatedOn |-> "none"]

NoModeHandler == [exists |-> FALSE, nvim |-> "undefined"]

\* the task queue runs one task at a time: one of its tasks has started and not finished
queueBusy(ps) == \E p \in Enqueued : ps[p].pc \notin {"idle", "queued"}

\* what an entry point does once getAndUpdateModeHandler has returned the handler
afterHandler(p) ==
    CASE p = "type" -> "handleKey" [] p = "remap" -> "run" [] OTHER -> "prompt"

\* overrideCommand(context, 'type', ...): the keystroke's task is enqueued
overrideType ==
    /\ procs["type"].pc = "idle"
    /\ procs' = [procs EXCEPT !["type"] = [IdleProc EXCEPT !.pc = "queued"]]
    /\ taskQueue' = Append(taskQueue, "type")
    /\ UNCHANGED <<modeHandler, enableNeovim>>

\* registerCommand(context, 'vim.remap', ...): the remapped command's task is enqueued
vimRemap ==
    /\ procs["remap"].pc = "idle"
    /\ procs' = [procs EXCEPT !["remap"] = [IdleProc EXCEPT !.pc = "queued"]]
    /\ taskQueue' = Append(taskQueue, "remap")
    /\ UNCHANGED <<modeHandler, enableNeovim>>

\* registerCommand(context, 'vim.showQuickpickCmdLine', ...): the callback runs at once
showQuickpickCmdLine ==
    /\ procs["quickpick"].pc = "idle"
    /\ procs' = [procs EXCEPT !["quickpick"] = [IdleProc EXCEPT !.pc = "getHandler"]]
    /\ UNCHANGED <<modeHandler, taskQueue, enableNeovim>>

\* the task queue starts its next task when the one before it has finished
DequeueTask ==
    /\ taskQueue # <<>>
    /\ ~queueBusy(procs)
    /\ procs' = [procs EXCEPT ![Head(taskQueue)].pc = "getHandler"]
    /\ taskQueue' = Tail(taskQueue)
    /\ UNCHANGED <<modeHandler, enableNeovim>>

\* getAndUpdateModeHandler up to 'await neovim.initialize()'
getAndUpdateModeHandler ==
    \E p \in EntryPoints :
        /\ procs[p].pc = "getHandler"
        /\ LET isNewModeHandler == ~modeHandler.exists IN
           /\ modeHandler' = [modeHandler EXCEPT !.exists = TRUE]
           /\ procs' = [procs EXCEPT ![p].pc = IF isNewModeHandler /\ enableNeovim
                                               THEN "initialize" ELSE afterHandler(p)]
        /\ UNCHANGED <<taskQueue, enableNeovim>>

\* neovim.initialize() has completed: curHandler.vimState.nvim = neovim
initialize ==
    \E p \in EntryPoints :
        /\ procs[p].pc = "initialize"
        /\ modeHandler' = [modeHandler EXCEPT !.nvim = "ready"]
        /\ procs' = [procs EXCEPT ![p].pc = afterHandler(p)]
        /\ UNCHANGED <<taskQueue, enableNeovim>>

\* await mh.handleKeyEvent(args.text) has completed
handleKeyEvent ==
    /\ procs["type"].pc = "handleKey"
    /\ procs' = [procs EXCEPT !["type"].pc = "idle"]
    /\ UNCHANGED <<modeHandler, taskQueue, enableNeovim>>

\* await vscode.window.showInputBox(...) has returned, with a text or with none
showInputBox ==
    /\ procs["quickpick"].pc = "prompt"
    /\ \E answered \in BOOLEAN :
         procs' = [procs EXCEPT !["quickpick"].pc = IF answered THEN "run" ELSE "idle"]
    /\ UNCHANGED <<modeHandler, taskQueue, enableNeovim>>

\* commandLine.Run up to its await: the command is dispatched to the backend or locally
RunDispatch ==
    \E p \in {"remap", "quickpick"}, command \in {WriteCommand, SubstituteCommand} :
        /\ procs[p].pc = "run"
        /\ procs' = [procs EXCEPT ![p] = [pc |-> "running",
                                          delegatedOn |-> IF useNeovim(enableNeovim, command)
                                                          THEN modeHandler.nvim ELSE "none"]]
        /\ UNCHANGED <<modeHandler, taskQueue, enableNeovim>>

\* commandLine.Run has completed
RunCompletes ==
    \E p \in {"remap", "quickpick"} :
        /\ procs[p].pc = "running"
        /\ procs' = [procs EXCEPT ![p].pc = "idle"]
        /\ UNCHANGED <<modeHandler, taskQueue, enableNeovim>>

IdleExtension ==
    /\ modeHandler = NoModeHandler
    /\ taskQueue = <<>>
    /\ procs = [p \in EntryPoints |-> IdleProc]


(***************************************************************************)
(* The write command (cmd_line/commands/write.ts): WriteCommand.execute,   *)
(* the callback it hands to fs.chmod and WriteCommand.save                 *)
(***************************************************************************)
\* the arguments that execute refuses
Unsupported == {"opt", "file", "append", "cmd"}

\* the catch block of the access check that relaxes the permissions whatever bang is
onAccessError_alwaysRelax(bang) == "chmod"

\* the catch block of the access check: chmod with bang, the status text without
onAccessError(bang) == IF bang THEN "chmod" ELSE "status"

\* the message of an error, shown as status text
errorText(e) == [lines |-> 0, chars |-> 0, text |-> e]

\* the text save shows: '"name" <lineCount>L <length of the text>C written'
writtenText(buf) == [lines |-> Len(buf), chars |-> Len(join(buf, "\n")), text |-> "written"]

\* result is the promise of execute, the one Run awaits; pc is what is still pending
NoWrite == [pc |-> "idle", called |-> FALSE, bang |-> FALSE, unsupported |-> "none",
            isUntitled |-> FALSE, writable |-> TRUE, result |-> "none", saves |-> 0,
            chmod |-> "none", statusBar |-> <<>>, message |-> "none"]

\* execute(vimState) up to its first await or its return
WriteExecute ==
    /\ write.pc = "idle"
    /\ \E bang, isUntitled, writable \in BOOLEAN, unsupported \in Unsupported \cup {"none"} :
         LET w == [NoWrite EXCEPT !.called = TRUE, !.bang = bang, !.unsupported = unsupported,
                                  !.isUntitled = isUntitled, !.writable = writable]
         IN write' =
              IF unsupported # "none"
              THEN [w EXCEPT !.message = "Not implemented.", !.result = "resolved"]
              ELSE IF isUntitled
              THEN [w EXCEPT !.pc = "untitledSave"]
              ELSE IF writable
              THEN [w EXCEPT !.pc = "save", !.saves = 1]
              ELSE IF onAccessError(bang) = "chmod"
              THEN [w EXCEPT !.pc = "chmod", !.result = "resolved"]
              ELSE [w EXCEPT !.statusBar = <<errorText("accessErr")>>, !.result = "resolved"]
    /\ UNCHANGED evars

\* await vscode.commands.executeCommand('workbench.action.files.save') ends
UntitledSaveReturns ==
    /\ write.pc = "untitledSave"
    /\ \E ok \in BOOLEAN :
         write' = IF ok
                  THEN [write EXCEPT !.pc = "idle", !.saves = @ + 1, !.result = "resolved"]
                  ELSE [write EXCEPT !.pc = "idle", !.result = "rejected"]
    /\ UNCHANGED evars

\* the callback of fs.chmod runs
ChmodCallback ==
    /\ write.pc = "chmod"
    /\ \E e \in BOOLEAN :
         write' = IF ~e
                  THEN [write EXCEPT !.pc = "saveAfterChmod", !.chmod = "ok", !.saves = @ + 1]
                  ELSE [write EXCEPT !.pc = "idle", !.chmod = "failed",
                                     !.statusBar = Append(@, errorText("chmodErr"))]
    /\ UNCHANGED evars

\* document.save() settles and save shows its text
SaveSettles ==
    /\ write.pc \in {"save", "saveAfterChmod"}
    /\ \E ok \in BOOLEAN :
         write' = [write EXCEPT
                     !.pc = "idle",
                     !.statusBar = Append(@, IF ok THEN writtenText(buffer)
                                              ELSE errorText("saveErr")),
                     !.result = IF write.pc = "save" THEN "resolved" ELSE @]
    /\ UNCHANGED evars

IdleWrite == write = NoWrite

(***************************************************************************)
(* Specifications                                                          *)
(***************************************************************************)
\* the history store alone
NextHistory ==
    \/ Add /\ UNCHANGED <<wvars, evars, rvars, cvars, svars, bvars, xvars>>
    \/ Get /\ UNCHANGED <<wvars, evars, rvars, cvars, svars, bvars, xvars>>
    \/ Clear /\ UNCHANGED <<wvars, evars, rvars, cvars, svars, bvars, xvars>>
    \/ SetCap /\ UNCHANGED <<wvars, evars, rvars, cvars, svars, bvars, xvars>>
    \/ Restart /\ UNCHANGED <<wvars, evars, rvars, cvars, svars, bvars, xvars>>

InitHistoryStore ==
    /\ InitHistory /\ IdleEditor /\ IdleNode /\ IdleCommandLine
    /\ IdleSubstitute /\ IdleBridge /\ IdleExtension /\ IdleWrite

SpecHistory == InitHistoryStore /\ [][NextHistory]_vars

\* ranges: the parser's addToken calls and the execution of a bare range
InitRange ==
    /\ IdleHistory /\ InitEditor /\ IdleNode /\ IdleCommandLine
    /\ IdleSubstitute /\ IdleBridge /\ IdleExtension /\ IdleWrite

NextRange ==
    \/ AddToken /\ UNCHANGED <<wvars, hvars, cvars, svars, bvars, xvars>>
    \/ ExecuteNode /\ UNCHANGED <<wvars, hvars, cvars, svars, bvars, xvars>>
    \/ NewCommandLine /\ UNCHANGED <<wvars, hvars, cvars, svars, bvars, xvars>>

SpecRange == InitRange /\ [][NextRange]_vars

\* the command line: calls of Run, one at a time
Init ==
    /\ history = <<>>
    /\ file = NoFile
    /\ dir = TRUE
    /\ cap \in 0..MaxCap
    /\ hOp = NoOp
    /\ IdleEditor
    /\ IdleNode
    /\ enableNeovim \in BOOLEAN
    /\ historyIndex = 0
    /\ run = IdleRun
    /\ spawn = NoSpawnError
    /\ IdleSubstitute /\ IdleBridge /\ IdleExtension /\ IdleWrite

Next ==
    \/ RunStart /\ UNCHANGED <<wvars, svars, bvars, xvars>>
    \/ PromptAndRun /\ UNCHANGED <<wvars, svars, bvars, xvars>>
    \/ PromptReturns /\ UNCHANGED <<wvars, svars, bvars, xvars>>
    \/ LocalExec /\ UNCHANGED <<wvars, svars, bvars, xvars>>
    \/ NvimReturns /\ UNCHANGED <<wvars, svars, bvars, xvars>>
    \/ FallbackReturns /\ UNCHANGED <<wvars, svars, bvars, xvars>>
    \/ SpawnError /\ UNCHANGED <<wvars, svars, bvars, xvars>>
    \/ ConfigurationReload /\ UNCHANGED <<wvars, svars, bvars, xvars>>

Spec == Init /\ [][Next]_vars

\* the substitute command, run locally on the editors of its tests
InitSubstitute ==
    /\ IdleHistory /\ InitSubstituteEditor /\ IdleNode /\ IdleCommandLine
    /\ IdleSubstitute /\ IdleBridge /\ IdleExtension /\ IdleWrite

NextSubstitute ==
    \/ Substitute /\ UNCHANGED <<wvars, hvars, rvars, cvars, bvars, xvars>>
    \/ Search /\ UNCHANGED <<wvars, hvars, rvars, cvars, bvars, xvars>>
    \/ MoveCursor /\ UNCHANGED <<wvars, hvars, rvars, cvars, bvars, xvars>>
    \/ SetSubstituteGlobalFlag /\ UNCHANGED <<wvars, hvars, rvars, cvars, bvars, xvars>>

SpecSubstitute == InitSubstitute /\ [][NextSubstitute]_vars

\* the backend bridge: calls of Neovim.run and Neovim.input, one at a time
InitBridge ==
    /\ IdleHistory /\ InitBridgeEditor /\ IdleNode
    /\ enableNeovim = TRUE /\ historyIndex = 0 /\ run = IdleRun /\ spawn = NoSpawnError
    /\ IdleSubstitute /\ IdleExtension /\ IdleWrite
    /\ bridge = IdleBridgeRun
    /\ \E stale \in BOOLEAN :
         nvim = [IdleNvim EXCEPT !.lines = <<LineText(3)>>,
                                 !.errmsg = IF stale THEN <<"E">> ELSE <<>>,
                                 !.statusmsg = IF stale THEN <<"S">> ELSE <<>>]

NextBridge ==
    \/ BridgeCall /\ UNCHANGED <<wvars, hvars, rvars, historyIndex, run, spawn, svars, xvars>>
    \/ BridgeSyncOut /\ UNCHANGED <<wvars, hvars, rvars, historyIndex, run, spawn, svars, xvars>>
    \/ BridgeClear /\ UNCHANGED <<wvars, hvars, rvars, historyIndex, run, spawn, svars, xvars>>
    \/ BridgeInject /\ UNCHANGED <<wvars, hvars, rvars, historyIndex, run, spawn, svars, xvars>>
    \/ BridgeGetMode /\ UNCHANGED <<wvars, hvars, rvars, historyIndex, run, spawn, svars, xvars>>
    \/ BridgeEsc /\ UNCHANGED <<wvars, hvars, rvars, historyIndex, run, spawn, svars, xvars>>
    \/ BridgeReadErr /\ UNCHANGED <<wvars, hvars, rvars, historyIndex, run, spawn, svars, xvars>>
    \/ BridgeReadStatus /\ UNCHANGED <<wvars, hvars, rvars, historyIndex, run, spawn, svars, xvars>>
    \/ BridgeSyncIn /\ UNCHANGED <<wvars, hvars, rvars, historyIndex, run, spawn, svars, xvars>>

SpecBridge == InitBridge /\ [][NextBridge]_vars

\* the entry points of the extension, interleaved at their awaits
InitExtension ==
    /\ IdleHistory /\ IdleEditor /\ IdleNode
    /\ enableNeovim \in BOOLEAN /\ historyIndex = 0 /\ run = IdleRun /\ spawn = NoSpawnError
    /\ IdleSubstitute /\ IdleBridge /\ IdleExtension /\ IdleWrite

NextExtension ==
    \/ overrideType /\ UNCHANGED <<wvars, hvars, evars, rvars, historyIndex, run, spawn, svars, bvars>>
    \/ vimRemap /\ UNCHANGED <<wvars, hvars, evars, rvars, historyIndex, run, spawn, svars, bvars>>
    \/ showQuickpickCmdLine
         /\ UNCHANGED <<wvars, hvars, evars, rvars, historyIndex, run, spawn, svars, bvars>>
    \/ DequeueTask /\ UNCHANGED <<wvars, hvars, evars, rvars, historyIndex, run, spawn, svars, bvars>>
    \/ getAndUpdateModeHandler
         /\ UNCHANGED <<wvars, hvars, evars, rvars, historyIndex, run, spawn, svars, bvars>>
    \/ initialize /\ UNCHANGED <<wvars, hvars, evars, rvars, historyIndex, run, spawn, svars, bvars>>
    \/ handleKeyEvent /\ UNCHANGED <<wvars, hvars, evars, rvars, historyIndex, run, spawn, svars, bvars>>
    \/ showInputBox /\ UNCHANGED <<wvars, hvars, evars, rvars, historyIndex, run, spawn, svars, bvars>>
    \/ RunDispatch /\ UNCHANGED <<wvars, hvars, evars, rvars, historyIndex, run, spawn, svars, bvars>>
    \/ RunCompletes /\ UNCHANGED <<wvars, hvars, evars, rvars, historyIndex, run, spawn, svars, bvars>>
    \/ ConfigurationReload /\ UNCHANGED <<wvars, svars, bvars, xvars>>

SpecExtension == InitExtension /\ [][NextExtension]_vars

\* the write command: calls of WriteCommand.execute, one at a time
InitWrite ==
    /\ IdleHistory /\ InitEditor /\ IdleNode /\ IdleCommandLine
    /\ IdleSubstitute /\ IdleBridge /\ IdleExtension /\ IdleWrite

NextWrite ==
    \/ WriteExecute /\ UNCHANGED <<hvars, rvars, cvars, svars, bvars, xvars>>
    \/ UntitledSaveReturns /\ UNCHANGED <<hvars, rvars, cvars, svars, bvars, xvars>>
    \/ ChmodCallback /\ UNCHANGED <<hvars, rvars, cvars, svars, bvars, xvars>>
    \/ SaveSettles /\ UNCHANGED <<hvars, rvars, cvars, svars, bvars, xvars>>

SpecWrite == InitWrite /\ [][NextWrite]_vars

(***************************************************************************)
(* Helpers of the properties                                               *)
(***************************************************************************)
NoDup(h) == \A i, j \in 1..Len(h) : i # j => h[i] # h[j]

IsSuffix(s, t) == Len(s) <= Len(t) /\ s = SubSeq(t, Len(t) - Len(s) + 1, Len(t))

Min(a, b) == IF a <= b THEN a ELSE b

Last(h) == h[Len(h)]

Front(h) == SubSeq(h, 1, Len(h) - 1)

\* h without its first occurrence of e
RECURSIVE DropFirst(_, _)
DropFirst(h, e) ==
    IF h = <<>> THEN <<>>
    ELSE IF Head(h) = e THEN Tail(h)
    ELSE <<Head(h)>> \o DropFirst(Tail(h), e)

\* the list a readable file decodes to, <<>> when it is no JSON array
FileList(f) ==
    LET p == JSONparse(f.data) IN IF f.exists /\ p.ok /\ p.isArray THEN p.value ELSE <<>>

IsJSONArray(d) == JSONparse(d).ok /\ JSONparse(d).isArray

AddedNonEmpty == hOp.op = "add" /\ hOp.arg # <<>>

(***************************************************************************)
(* C5: add is move-to-end.  After add(e) with e non-empty and cap >= 1 on  *)
(* a duplicate-free list (any list built by adds from the empty list), e   *)
(* is the last entry of get() and the other surviving entries are the most *)
(* recent ones of the previous list, in their previous order; from         *)
(* ["a","x"], add("a") gives ["x","a"] when the cap is at least 2.         *)
(***************************************************************************)
C5_MoveToEnd ==
    (AddedNonEmpty /\ cap >= 1 /\ NoDup(hOp.pre)) =>
        LET r == get(history, cap) IN
        /\ r # <<>>
        /\ Last(r) = hOp.arg
        /\ IsSuffix(Front(r), DropFirst(hOp.pre, hOp.arg))
        /\ \A k \in 1..(Len(r) - 1) : r[k] # hOp.arg
        /\ (hOp.pre = << <<"a">>, <<"x">> >> /\ hOp.arg = <<"a">> /\ cap >= 2)
              => r = << <<"x">>, <<"a">> >>

C5_Witness ==
    /\ AddedNonEmpty
    /\ hOp.pre = << <<"a">>, <<"x">> >>
    /\ hOp.arg = <<"a">>
    /\ history = << <<"x">>, <<"a">> >>

(***************************************************************************)
(* C6 as stated: in every reachable state of the store, whatever file it   *)
(* was constructed from, the history list holds no two equal entries.      *)
(***************************************************************************)
C6_NoDuplicatesAnyFile == NoDup(history)

(***************************************************************************)
(* C6 amended: a store constructed from a missing, empty or corrupted file *)
(* or from a file whose array holds no two equal entries has no two equal  *)
(* entries, and no add, get, clear, configuration change or reload of a    *)
(* duplicate-free file introduces one (duplicates already in the loaded    *)
(* file are kept).                                                         *)
(***************************************************************************)
C6_NoDuplicatesPreserved ==
    /\ [](hOp.op = "construct" /\ NoDup(FileList(hOp.preFile)) => NoDup(history))
    /\ [][(NoDup(history) /\ NoDup(FileList(file)))
             => (NoDup(history') /\ NoDup(FileList(file')))]_vars

C6_Witness ==
    /\ AddedNonEmpty
    /\ NoDup(hOp.pre)
    /\ \E k \in 1..Len(hOp.pre) : hOp.pre[k] = hOp.arg
    /\ Len(hOp.pre) >= 2
    /\ Len(history) = Len(hOp.pre)
    /\ NoDup(history)

(***************************************************************************)
(* C7: the cap as callers observe it.  After every add of a non-empty      *)
(* entry and in every get() result the list is no longer than the current  *)
(* cap and is the most recent suffix of the list before the call (for add: *)
(* of that list with the entry moved to its end), also after the cap was   *)
(* lowered and after a longer list was loaded from the file.               *)
(***************************************************************************)
C7_CapObserved ==
    /\ Len(get(history, cap)) <= cap
    /\ IsSuffix(get(history, cap), history)
    /\ hOp.op = "get" =>
          /\ Len(history) = Min(cap, Len(hOp.pre))
          /\ IsSuffix(history, hOp.pre)
    /\ AddedNonEmpty =>
          LET full == Append(DropFirst(hOp.pre, hOp.arg), hOp.arg) IN
          /\ Len(history) = Min(cap, Len(full))
          /\ IsSuffix(history, full)
          /\ get(history, cap) = history

C7_Witness ==
    /\ hOp.op = "get"
    /\ Len(hOp.pre) > cap
    /\ cap >= 1
    /\ Len(history) = cap

(***************************************************************************)
(* C8 as stated: constructing never raises; a missing file gives the empty *)
(* history; a file that is no parseable JSON array (the empty file         *)
(* included) is deleted and gives the empty history.                       *)
(***************************************************************************)
C8_CorruptedAlwaysDeleted ==
    hOp.op = "construct" =>
        /\ ~hOp.threw
        /\ ~hOp.preFile.exists => history = <<>>
        /\ (hOp.preFile.exists /\ ~IsJSONArray(hOp.preFile.data))
              => (history = <<>> /\ ~file.exists)

(***************************************************************************)
(* C8 amended: constructing never raises and a missing, unreadable, empty  *)
(* or non-array/unparsable file gives the empty history.  Only a readable  *)
(* non-empty file that is no parseable JSON array is treated as corrupted: *)
(* its deletion is attempted and the file is gone unless the unlink itself *)
(* fails.  An empty or unreadable file is left in place.                   *)
(***************************************************************************)
C8_ConstructTolerant ==
    hOp.op = "construct" =>
        LET f == hOp.preFile
            corrupted == f.exists /\ hOp.readOk /\ f.data # <<>> /\ ~IsJSONArray(f.data)
        IN /\ ~hOp.threw
           /\ (~f.exists \/ ~hOp.readOk \/ ~IsJSONArray(f.data)) => history = <<>>
           /\ (corrupted /\ hOp.unlinkOk) => ~file.exists
           /\ ~(corrupted /\ hOp.unlinkOk) => file = f
           /\ (f.exists /\ hOp.readOk /\ IsJSONArray(f.data)) => history = FileList(f)

C8_Witness ==
    /\ hOp.op = "construct"
    /\ hOp.preFile = FileOf(<<"{", "}">>)
    /\ hOp.readOk
    /\ hOp.unlinkOk
    /\ ~file.exists
    /\ history = <<>>

(***************************************************************************)
(* C9: save/load round trip.  After an add of a non-empty entry whose      *)
(* write succeeded the file holds the JSON array of the whole in-memory    *)
(* list in order, and a store constructed on that file (read succeeding,   *)
(* same cap) returns from get() the list this store returns.               *)
(***************************************************************************)
C9_SaveLoadRoundTrip ==
    (AddedNonEmpty /\ hOp.wrote) =>
        /\ file.exists
        /\ file.data = JSONstringify(history)
        /\ \A unlinkOk \in BOOLEAN :
             LET l == loadFromFile(file, TRUE, unlinkOk) IN
             /\ get(l.history, cap) = get(history, cap)
             /\ l.file = file
             /\ ~l.threw

C9_Witness ==
    /\ AddedNonEmpty
    /\ hOp.wrote
    /\ Len(history) >= 2
    /\ \E k \in 1..Len(history) : history[k] = <<QT, CM, BSL>>
    /\ loadFromFile(file, TRUE, TRUE).history = history

(***************************************************************************)
(* C1 as stated: whatever parsing, local execution and delegation end      *)
(* with, the promise returned by Run resolves; nothing is re-raised.       *)
(***************************************************************************)
C1_RunNeverRejects == run.result # "rejected"

\* the text Run records: the input without one leading ':'
Stripped(input) ==
    IF input # <<>> /\ input[1] = ":" THEN SubSeq(input, 2, Len(input)) ELSE input

RunReturned == run.pc = "idle" /\ run.result # "none"

(***************************************************************************)
(* C2: when the text is non-empty after removing one leading ':' and the   *)
(* cap is at least 1, that stripped text is the last history entry from    *)
(* the moment Run has started, before the outcome of parsing, execution or *)
(* delegation is known, and still when Run has returned.                   *)
(***************************************************************************)
C2_HistoryRecordsCommand ==
    (run.input # <<>> /\ Stripped(run.input) # <<>> /\ cap >= 1) =>
        /\ get(history, cap) # <<>>
        /\ Last(get(history, cap)) = Stripped(run.input)
        /\ historyIndex = Len(get(history, cap))

C2_Witness ==
    /\ RunReturned
    /\ run.input = <<":", "w">>
    /\ run.caught = "Error"
    /\ Len(history) = 2
    /\ Last(history) = <<"w">>

(***************************************************************************)
(* C3: when parsing or local execution raises E492, Run calls the          *)
(* backend's run exactly once with the same command text if delegation is  *)
(* enabled, also for a command that is not delegation-eligible; if it is   *)
(* disabled the error is shown as status text with the command text and    *)
(* the backend is not called.                                              *)
(***************************************************************************)
C3_UnsupportedSyntaxFallback ==
    run.caught = "E492" =>
        IF run.enabledAtCatch
        THEN /\ run.nvimCalls = <<NvimCall(Stripped(run.input), TRUE)>>
             /\ ~run.direct
             /\ run.message = "none"
             /\ \A k \in 1..Len(run.status) : run.status[k].err # "E492"
        ELSE /\ run.nvimCalls = <<>>
             /\ run.status = <<[err |-> "E492", command |-> Stripped(run.input)]>>
             /\ run.message = "none"
             /\ run.result = "resolved"

C3_Witness ==
    /\ RunReturned
    /\ run.caught = "E492"
    /\ run.enabledAtCatch
    /\ cmdLine.command.name = "write"
    /\ run.localExecs = 1
    /\ run.nvimCalls = <<NvimCall(<<"w">>, TRUE)>>

(***************************************************************************)
(* C4: after a successful parse Run calls the backend instead of executing *)
(* locally exactly when delegation is enabled and the node has a command   *)
(* that declares delegation eligibility; otherwise it executes locally.  A *)
(* bare range is never delegated, and every backend call is made while     *)
(* delegation is enabled.                                                  *)
(***************************************************************************)
C4_DelegationDecision ==
    /\ run.parsed = "ok" =>
          /\ run.direct <=> (run.enabledAtDispatch /\ cmdLine.command.name # "none"
                               /\ cmdLine.command.neovimCapable)
          /\ run.direct => (run.localExecs = 0 /\ run.nvimCalls # <<>>
                              /\ run.nvimCalls[1] = NvimCall(Stripped(run.input), TRUE))
          /\ (~run.direct /\ run.pc = "exec") => (run.localExecs = 0 /\ run.nvimCalls = <<>>)
          /\ (~run.direct /\ run.pc # "exec") => run.localExecs = 1
          /\ cmdLine.command.name = "none" => run.nvimCalls = <<>>
    /\ \A k \in 1..Len(run.nvimCalls) : run.nvimCalls[k].enabled

C4_Witness ==
    /\ RunReturned
    /\ run.direct
    /\ cmdLine.command.name = "substitute"
    /\ run.localExecs = 0
    /\ run.result = "resolved"

(***************************************************************************)
(* C10: bare-range jump.  Executing a node without a command whose range   *)
(* is not empty and resolves puts the cursor and the selection anchor on   *)
(* the position its rightmost non-empty side resolves to and leaves the    *)
(* buffer unchanged; with an empty range nothing is resolved and the       *)
(* cursor is unchanged.                                                    *)
(***************************************************************************)
C10_BareRangeJump ==
    (rOp.op = "execute" /\ cmdLine.command.name = "none") =>
        LET r == cmdLine.range
            side == IF r.right # <<>> THEN r.right ELSE r.left
            p == lineRefToPosition(buffer, selections, marks, side)
        IN /\ buffer = rOp.preBuffer
           /\ IF r.left = <<>> /\ r.right = <<>> /\ r.separator = <<>>
              THEN /\ ~rOp.threw
                   /\ cursorPosition = rOp.preCursor
                   /\ cursorStartPosition = rOp.preStart
              ELSE IF ~p.threw
              THEN /\ ~rOp.threw
                   /\ cursorPosition = p.pos
                   /\ cursorStartPosition = p.pos
              ELSE /\ rOp.threw
                   /\ cursorPosition = rOp.preCursor
                   /\ cursorStartPosition = rOp.preStart

C10_Witness ==
    /\ rOp.op = "execute"
    /\ ~rOp.threw
    /\ cmdLine.range.left = <<Tok("Dot", <<".">>)>>
    /\ cmdLine.range.right = <<Tok("Dollar", <<"$">>)>>
    /\ rOp.preCursor.line = 0
    /\ rOp.preStart.line = 0
    /\ Len(buffer) = 3
    /\ cursorPosition = Pos(2, 0)
    /\ cursorStartPosition = Pos(2, 0)

(***************************************************************************)
(* The substitute command                                                  *)
(***************************************************************************)
CountOf(c, line) == Cardinality({ k \in 1..Len(line) : line[k] = c })

\* the substitute tests: editor, substituteGlobalFlag, command line, expected lines
SubstituteTests ==
    LET aba == <<"a", "b", "a">>
        dba == <<"d", "b", "a">>
        dbd == <<"d", "b", "d">>
        ab == <<"a", "b">>
        db == <<"d", "b">>
        abc == <<"a", "b", "c">>
        dbc == <<"d", "b", "c">>
        sad == <<"s", "/", "a", "/", "d">>
        T(scene, flag, text, expected) ==
            [scene |-> scene, flag |-> flag, text |-> text, expected |-> expected]
    IN { T("single", FALSE, <<"%">> \o sad, <<dba>>),
         T("single", FALSE, <<"%">> \o sad \o <<"/", "g">>, <<dbd>>),
         T("lines", FALSE, <<"%">> \o sad \o <<"/", "g">>, <<dbd, db>>),
         T("lines", FALSE, <<"1", ",", "1">> \o sad \o <<"/", "g">>, <<dbd, ab>>),
         T("lines", FALSE, sad \o <<"/", "g">>, <<aba, db>>),
         T("selection", FALSE, <<"'", "<", ",", "'", ">">> \o sad \o <<"/", "g">>, <<dbd, db>>),
         T("marked", FALSE, <<"'", "a", ",", "'", "b">> \o sad \o <<"/", "g">>, <<dbc, dbc, abc>>),
         T("single", TRUE, <<"%">> \o sad, <<dbd>>),
         T("single", TRUE, <<"%">> \o sad \o <<"/", "g">>, <<dba>>),
         T("lines", TRUE, <<"%">> \o sad \o <<"/">>, <<dbd, db>>),
         T("lines", TRUE, <<"1", ",", "1">> \o sad \o <<"/">>, <<dbd, ab>>),
         T("lines", TRUE, sad \o <<"/">>, <<aba, db>>),
         T("selection", TRUE, <<"'", "<", ",", "'", ">">> \o sad \o <<"/">>, <<dbd, db>>),
         T("marked", TRUE, <<"'", "a", ",", "'", "b">> \o sad \o <<"/">>, <<dbc, dbc, abc>>),
         T("escaped", TRUE, <<"s", "/", BSL, "/", BSL, "/", "f", "/", "z", "/", "g">>,
           <<<<"b", "z">>>>) }

\* the tests of 'Substitute with empty search string should use previous search'
SearchTests ==
    LET S(k, pat) == [kind |-> k, pattern |-> pat]
        T(searches, expected) == [searches |-> searches, expected |-> expected]
    IN { T(<<S("*", Foo)>>, <<Fighters, Bar, Fighters, Bar>>),
         T(<<S("#", Bar)>>, <<Foo, Fighters, Foo, Fighters>>),
         T(<<S("/", Foo)>>, <<Fighters, Bar, Fighters, Bar>>),
         T(<<S("/", Foo), S("*", Bar)>>, <<Foo, Fighters, Foo, Fighters>>) }

\* the editor is the one a test built, but for the text the command changed
InScene(n) ==
    /\ sOp.preBuffer = SubstituteScenes[n].buffer
    /\ cursorPosition = SubstituteScenes[n].cursorPosition
    /\ cursorStartPosition = SubstituteScenes[n].cursorStartPosition
    /\ selections = SubstituteScenes[n].selections
    /\ marks = SubstituteScenes[n].marks

\* a substitute of "a" by "d" was run and did not fail
SubstitutedAByD ==
    /\ sOp.op = "substitute"
    /\ ~sOp.threw
    /\ sOp.args.pattern = <<"a">>
    /\ sOp.args.replacement = <<"d">>

\* C11: with the default off, s/a/d replaces the first match of a line and s/a/d/g
\* every match; with the default on the two are exchanged: on every line of a
\* '%' substitute the matches replaced are all of them when default XOR g, else
\* the first one only; and the tests of the law end with the lines they expect.
C11_GlobalFlagInversion ==
    /\ (SubstitutedAByD /\ sOp.range.left # <<>> /\ sOp.range.left[1].type = "Percent") =>
         /\ Len(buffer) = Len(sOp.preBuffer)
         /\ \A k \in 1..Len(buffer) :
              LET old == sOp.preBuffer[k]
                  n == CountOf("a", old)
                  all == (substituteGlobalFlag # hasFlag(sOp.args.flags, "g"))
              IN /\ Len(buffer[k]) = Len(old)
                 /\ CountOf("a", buffer[k]) = IF all \/ n = 0 THEN 0 ELSE n - 1
                 /\ CountOf("d", buffer[k]) + CountOf("a", buffer[k])
                      = CountOf("d", old) + n
                 /\ (~all /\ n > 0) =>
                      \E j \in 1..Len(old) :
                          /\ old[j] = "a"
                          /\ \A i \in 1..(j - 1) : old[i] # "a"
                          /\ buffer[k] = [old EXCEPT ![j] = "d"]
    /\ \A t \in SubstituteTests :
         (/\ t.scene = "single"
          /\ sOp.op = "substitute" /\ sOp.text = t.text /\ sOp.preSearch = <<>>
          /\ InScene(t.scene) /\ substituteGlobalFlag = t.flag) => buffer = t.expected

\* the default is on and the g flag is given: only the first "a" of "aba" is replaced
C11_Witness ==
    /\ SubstitutedAByD
    /\ substituteGlobalFlag
    /\ hasFlag(sOp.args.flags, "g")
    /\ sOp.range.left # <<>> /\ sOp.range.left[1].type = "Percent"
    /\ sOp.preBuffer = <<<<"a", "b", "a">>>>
    /\ buffer = <<<<"d", "b", "a">>>>

\* the lines the claim gives a range: 0-based first and last line
ClaimedScope ==
    LET r == sOp.range
        lineOf(toks) ==
            CASE toks[1].type = "LineNumber" -> parseInt(toks[1].content) - 1
              [] toks[1].type = "SelectionFirstLine" ->
                   Min(selections[1].anchor.line, selections[1].active.line)
              [] toks[1].type = "SelectionLastLine" ->
                   IF selections[1].anchor.line >= selections[1].active.line
                   THEN selections[1].anchor.line ELSE selections[1].active.line
              [] toks[1].type = "Mark" -> marks[toks[1].content][1].line
              [] OTHER -> 0
    IN IF rangeIsEmpty(r) THEN cursorPosition.line..cursorPosition.line
       ELSE IF r.left[1].type = "Percent" THEN 0..(Len(sOp.preBuffer) - 1)
       ELSE lineOf(r.left)..lineOf(r.right)

\* C12: with a range resolved to [s,e] (numeric, '%', '<,'> or 'a,'b) exactly the
\* lines s..e are candidates, with no range only the cursor line is; every line
\* outside the scope and every line of it without a match is left as it was, every
\* line of it with a match is changed; the tests of the scope end as they expect.
C12_SubstituteScope ==
    /\ SubstitutedAByD =>
         /\ Len(buffer) = Len(sOp.preBuffer)
         /\ \A k \in 1..Len(buffer) :
              IF (k - 1) \in ClaimedScope /\ CountOf("a", sOp.preBuffer[k]) > 0
              THEN buffer[k] # sOp.preBuffer[k]
              ELSE buffer[k] = sOp.preBuffer[k]
    /\ \A t \in SubstituteTests :
         (/\ sOp.op = "substitute" /\ sOp.text = t.text /\ sOp.preSearch = <<>>
          /\ InScene(t.scene) /\ substituteGlobalFlag = t.flag) => buffer = t.expected

\* 'a,'b on three lines "abc" with the marks on the first two: the third line is left
C12_Witness ==
    /\ SubstitutedAByD
    /\ sOp.range.left # <<>> /\ sOp.range.left[1].type = "Mark"
    /\ sOp.range.right # <<>> /\ sOp.range.right[1].type = "Mark"
    /\ sOp.preBuffer = SubstituteScenes["marked"].buffer
    /\ buffer = <<<<"d", "b", "c">>, <<"d", "b", "c">>, <<"a", "b", "c">>>>

\* C13: a substitute with an empty pattern uses the pattern of the most recent
\* search of any kind ('/', '*' or '#'): after a '/' search and then a '*' search
\* the later one; with no search before it the substitute fails and no text changes.
C13_EmptyPatternReuse ==
    /\ (sOp.op = "substitute" /\ sOp.args.pattern = <<>>) =>
         IF sOp.preSearch = <<>>
         THEN sOp.threw /\ buffer = sOp.preBuffer
         ELSE /\ ~sOp.threw
              /\ Len(buffer) = Len(sOp.preBuffer)
              /\ \A k \in 1..Len(buffer) :
                   buffer[k] = IF sOp.preBuffer[k] = Last(sOp.preSearch).pattern
                               THEN sOp.args.replacement ELSE sOp.preBuffer[k]
    /\ \A t \in SearchTests :
         (/\ sOp.op = "substitute" /\ sOp.args.pattern = <<>>
          /\ sOp.preBuffer = SubstituteScenes["words"].buffer
          /\ sOp.preSearch = t.searches) => buffer = t.expected

\* '/foo' then '*' on "bar", then %s//fighters: the lines "bar" are replaced
C13_Witness ==
    /\ sOp.op = "substitute" /\ sOp.args.pattern = <<>>
    /\ Len(sOp.preSearch) = 2
    /\ sOp.preSearch[1] = [kind |-> "/", pattern |-> Foo]
    /\ sOp.preSearch[2] = [kind |-> "*", pattern |-> Bar]
    /\ buffer = <<Foo, Fighters, Foo, Fighters>>

(***************************************************************************)
(* The backend bridge and the session                                      *)
(***************************************************************************)
\* a call of run or input ended before its last step
BridgeStepFailed ==
    /\ bridge.op # "none"
    /\ bridge.pc = "idle"
    /\ (bridge.steps = <<>> \/ Last(bridge.steps) \notin {"syncIn", "surface"})

\* C14: if a step of run or input fails (process death, RPC error) the failure
\* does not propagate out of the bridge, delegation is disabled for the commands
\* that follow and a generic failure text is surfaced.
\* Neovim.run and Neovim.input have no handler: the rejection of the awaited call is
\* theirs, configuration.enableNeovim is left as it was and nothing is surfaced.
C14_BridgeFailureContained ==
    BridgeStepFailed =>
        /\ bridge.result = "resolved"
        /\ ~enableNeovim
        /\ bridge.surfaced # <<>>

\* C15: after the spawn error event every later Run of the session executes
\* locally and never calls the backend.
\* The handler only clears configuration.enableNeovim, which the next
\* configuration reload sets again from the user's settings.
C15_SpawnFailurePermanent == spawn.runAfter => run.nvimCalls = <<>>

\* the entry points that are inside a command or inside the handling of a keystroke
InFlight == { p \in EntryPoints : procs[p].pc \in {"handleKey", "running"} }

\* C16: every Run or PromptAndRun started by the entry points executes inside the
\* task queue, so a command is never in flight together with another command or
\* with the handling of a keystroke.
\* 'vim.showQuickpickCmdLine' calls PromptAndRun without enqueueing it.
C16_CommandsSerialized == Cardinality(InFlight) <= 1

\* C17: under any interleaving of getAndUpdateModeHandler and Run with delegation
\* enabled, a Run delegates only to a session whose initialize() has completed,
\* never to one that is missing or still initializing.
\* vimState.nvim is assigned only when the handler is new and delegation is enabled
\* at that moment, and only after initialize; Run reads configuration.enableNeovim alone.
C17_DelegationOnInitializedSession ==
    \A p \in EntryPoints : procs[p].delegatedOn # "undefined"

\* C18: when the prompt is abandoned (it returns no text) PromptAndRun executes
\* nothing: no history entry is added, the history index is unchanged, nothing is
\* parsed, executed or delegated and no status text or message is set.
C18_AbandonedPromptDoesNothing ==
    [][(run.pc = "prompt" /\ run'.undefined) =>
          /\ UNCHANGED <<hvars, evars, rvars, historyIndex, enableNeovim>>
          /\ run' = [IdleRun EXCEPT !.result = "resolved", !.undefined = TRUE]]_vars

\* a prompt was abandoned while the history held entries
C18_Witness ==
    /\ run.undefined
    /\ run.pc = "idle"
    /\ run.result = "resolved"
    /\ history # <<>>

\* the calls of run in their order, for the mode and the error indicator that were read
ExpectedSteps ==
    <<"syncOut", "clear", "inject", "getMode">>
    \o (IF bridge.blocking THEN <<"esc">> ELSE <<>>)
    \o <<"readErr">>
    \o (IF bridge.errEmpty THEN <<"readStatus">> ELSE <<>>)
    \o <<"syncIn", "surface">>

\* C19: in every run the steps happen once each and in this order: sync-out,
\* clearing of the error and status indicators, injection of the command text, a
\* cancel keystroke if and only if the backend then reports a blocking mode,
\* read-back of the indicators, sync-in, and only then the surfacing of the text.
C19_RunStepOrder ==
    bridge.op = "run" =>
        /\ IsPrefix(bridge.steps, ExpectedSteps)
        /\ bridge.result = "resolved" =>
             /\ bridge.steps = ExpectedSteps
             /\ nvim.received = <<bridge.injected>> \o (IF bridge.blocking THEN <<ESC>> ELSE <<>>)
             /\ bridge.surfaced # <<>>
        /\ bridge.surfaced # <<>> => bridge.result = "resolved"
        /\ (\E k \in 1..Len(bridge.steps) : bridge.steps[k] = "esc") => bridge.blocking

\* a run that met a blocking mode, cancelled it and went on to surface its text
C19_Witness ==
    /\ bridge.op = "run"
    /\ bridge.result = "resolved"
    /\ bridge.blocking
    /\ bridge.steps = <<"syncOut", "clear", "inject", "getMode", "esc", "readErr",
                        "readStatus", "syncIn", "surface">>

\* C20: every '<' of the command text is escaped as '<lt>' before the text is
\* injected, however many '<' the text holds.
\* command.replace('<', '<lt>') has a string pattern: it replaces the first '<' only.
C20_EveryLtEscaped ==
    (bridge.op = "run" /\ bridge.injected # <<>>) =>
        \A k \in 1..Len(bridge.injected) :
            bridge.injected[k] = "<" =>
                /\ k + 3 <= Len(bridge.injected)
                /\ SubSeq(bridge.injected, k, k + 3) = LT

\* the text the indicators set by the injected command call for
IndicatorText ==
    IF bridge.produced.errmsg # <<>> THEN bridge.produced.errmsg
    ELSE IF bridge.produced.statusmsg # <<>> THEN bridge.produced.statusmsg
    ELSE <<>>

\* C21: the text surfaced after a run is the error indicator if the command set
\* one, otherwise the status indicator if it set one, otherwise the empty string;
\* an indicator left by an earlier command is never surfaced, because both are
\* cleared before the injection.
C21_SurfacedText ==
    (bridge.op = "run" /\ bridge.result = "resolved") =>
        bridge.surfaced = <<IndicatorText>>

\* a run whose command set the status indicator alone, and surfaced that
C21_Witness ==
    /\ bridge.op = "run"
    /\ bridge.result = "resolved"
    /\ bridge.steps = ExpectedSteps
    /\ bridge.produced = [errmsg |-> <<>>, statusmsg |-> <<"S">>]
    /\ bridge.surfaced = << <<"S">> >>

\* C22: if the external process leaves the buffer and the cursor as they were
\* pushed, sync-out followed by sync-in leaves the text of the document identical,
\* whatever the text, and the cursor on the same line and column; on Windows the
\* only difference allowed is one carriage return less at the end of a line.
\* With configuration.expandtab the document goes through indentationToTabs before
\* the push and indentationToSpaces after the read-back: a leading tab comes back
\* as TabSize spaces.
C22_SyncRoundTrip ==
    (bridge.result = "resolved" /\ bridge.untouched) =>
        /\ Len(buffer) = Len(bridge.preBuffer)
        /\ \A k \in 1..Len(buffer) :
              \/ buffer[k] = bridge.preBuffer[k]
              \/ bridge.win32 /\ bridge.preBuffer[k] = buffer[k] \o <<CR>>
        /\ selections = <<Caret(cursorPosition)>>

(***************************************************************************)
(* The range of a node: its shape and its resolution                       *)
(***************************************************************************)
\* the number of tokens of toks that are no Offset
NonOffsets(toks) == Cardinality({ k \in 1..Len(toks) : toks[k].type # "Offset" })

\* the side the next address token goes to
OpenSide(r) == IF r.separator = <<>> THEN r.left ELSE r.right

\* C23: after any sequence of addToken calls, the throwing ones included, right is
\* non-empty only if a separator was seen and each side holds at most one token
\* that is no Offset; an addToken that would put a second such token on a side
\* throws and leaves left, right and separator as they were.
C23_RangeShape ==
    LET r == cmdLine.range IN
    /\ r.right # <<>> => r.separator # <<>>
    /\ NonOffsets(r.left) <= 1
    /\ NonOffsets(r.right) <= 1
    /\ \A tok \in TokenInputs :
          (tok.type \notin {"Comma", "Offset"} /\ NonOffsets(OpenSide(r)) = 1) =>
              addToken(r, tok) = [range |-> r, threw |-> TRUE]

\* a second address was refused on a right side that holds an address and an offset
C23_Witness ==
    /\ rOp.op = "addToken"
    /\ rOp.threw
    /\ cmdLine.range.left = <<Tok("Dot", <<".">>)>>
    /\ cmdLine.range.separator # <<>>
    /\ cmdLine.range.right = <<Tok("Dollar", <<"$">>), Tok("Offset", <<"+", "1">>)>>

\* the lines of the start and the end of every active selection
SelectionLines ==
    { selStart(selections[k]).line : k \in 1..Len(selections) }
    \cup { selEnd(selections[k]).line : k \in 1..Len(selections) }

\* the side LineRange.execute must resolve
PickedSide == IF cmdLine.range.right # <<>> THEN cmdLine.range.right ELSE cmdLine.range.left

\* C24: executing a non-empty range without a command (a token or a separator was
\* added) picks the right side if it is non-empty and the left side otherwise and
\* resolves the first token of that side: '$' and '%' to the last line
\* (lineCount-1), '.' to the line of the cursor of the editor, '< to the least and
\* '> to the greatest of the start and end lines of all the selections; an
\* execution that does not end on the line its first token resolves to ends in an
\* exception, which Run reports, with the cursor where it was: so it does for a
\* side without a token, for a side that starts with an Offset and for a mark
\* that is not set.
C24_RangeResolution ==
    (rOp.op = "execute" /\ cmdLine.command.name = "none" /\ ~rangeIsEmpty(cmdLine.range)) =>
        LET type == IF PickedSide = <<>> THEN "none" ELSE PickedSide[1].type
            moved == /\ ~rOp.threw
                     /\ cursorPosition.character = 0
                     /\ cursorStartPosition = cursorPosition
            failed == /\ rOp.threw
                      /\ cursorPosition = rOp.preCursor
                      /\ cursorStartPosition = rOp.preStart
        IN CASE type \in {"Dollar", "Percent"} ->
                  moved /\ cursorPosition.line = Len(buffer) - 1
             [] type = "Dot" ->
                  moved /\ cursorPosition.line = selections[1].active.line
             [] type = "SelectionFirstLine" ->
                  moved /\ cursorPosition.line = SetMin(SelectionLines)
             [] type = "SelectionLastLine" ->
                  moved /\ cursorPosition.line = SetMax(SelectionLines)
             [] type = "LineNumber" -> moved
             [] type = "Mark" ->
                  IF PickedSide[1].content \in DOMAIN marks
                  THEN ~rOp.threw /\ cursorPosition = marks[PickedSide[1].content][1]
                  ELSE failed
             [] OTHER -> failed

\* '< was resolved on the right side, over two selections of which the primary one
\* does not start on the least line
C24_Witness ==
    /\ rOp.op = "execute"
    /\ ~rOp.threw
    /\ cmdLine.range.left = <<Tok("Dollar", <<"$">>)>>
    /\ cmdLine.range.right = <<Tok("SelectionFirstLine", <<"<">>)>>
    /\ Len(selections) = 2
    /\ selStart(selections[1]).line = 2
    /\ rOp.preCursor.line = 2
    /\ cursorPosition = Pos(0, 0)

\* the number a LineNumber token stands for
NumberOf(tok) ==
    CASE tok.content = <<"0">> -> 0 [] tok.content = <<"1">> -> 1
      [] tok.content = <<"2">> -> 2 [] tok.content = <<"1", "0">> -> 10

Max(a, b) == IF a >= b THEN a ELSE b

\* C25: a numeric address n resolves to the line index min(lineCount, max(0, n-1))
\* for every n >= 0 and every buffer of lineCount >= 1: n = 0 and n = 1 resolve to
\* index 0 and every n > lineCount resolves to index lineCount, the raw line count.
C25_NumericAddress ==
    (/\ rOp.op = "execute"
     /\ cmdLine.command.name = "none"
     /\ PickedSide # <<>>
     /\ PickedSide[1].type = "LineNumber") =>
        LET n == NumberOf(PickedSide[1])
            lineCount == Len(buffer)
        IN /\ ~rOp.threw
           /\ cursorPosition = Pos(Min(lineCount, Max(0, n - 1)), 0)
           /\ n \in {0, 1} => cursorPosition.line = 0
           /\ n > lineCount => cursorPosition.line = lineCount

\* the address 10 was resolved in a buffer of two lines, to the index 2
C25_Witness ==
    /\ rOp.op = "execute"
    /\ ~rOp.threw
    /\ PickedSide = <<Tok("LineNumber", <<"1", "0">>)>>
    /\ Len(buffer) = 2
    /\ rOp.preCursor.line = 0
    /\ cursorPosition = Pos(2, 0)

(***************************************************************************)
(* Commands without range execution, and the write command                 *)
(***************************************************************************)
\* C26: a command variant that does not implement range execution (write), run
\* with a non-empty range, performs none of its effects and fails as unsupported:
\* Run treats it as the unsupported-syntax case, retrying through the backend when
\* delegation is enabled and showing the status text otherwise.
\* CommandBase.executeWithRange throws a plain Error, no VimError: Run's catch logs it
\* and shows it with Message.ShowError, without a retry and without a status text.
C26_RangeUnsupported ==
    (/\ RunReturned
     /\ run.localExecs = 1
     /\ cmdLine.command.name = "write"
     /\ ~rangeIsEmpty(cmdLine.range)) =>
        IF run.enabledAtCatch THEN run.nvimCalls # <<>> ELSE run.status # <<>>

\* the last write was of a titled file that the access check refused
DeniedWrite ==
    /\ write.called
    /\ write.unsupported = "none"
    /\ ~write.isUntitled
    /\ ~write.writable

\* C27: for a titled file that is not writable, write without bang shows the access
\* error as status text and attempts no save; with bang the permissions are
\* relaxed first and the save is attempted only after the relaxing succeeded, and
\* if it fails its error is shown and no save is attempted; write with an option,
\* a file name, append or a shell command never saves and reports
\* 'Not implemented.'.
C27_DeniedWriteEscalation ==
    /\ (DeniedWrite /\ ~write.bang) =>
          /\ write.statusBar = <<errorText("accessErr")>>
          /\ write.saves = 0
          /\ write.chmod = "none"
    /\ (DeniedWrite /\ write.bang) =>
          /\ write.saves > 0 => write.chmod = "ok"
          /\ write.chmod = "failed" => (write.statusBar = <<errorText("chmodErr")>> /\ write.saves = 0)
          /\ write.chmod = "none" => write.statusBar = <<>>
    /\ (write.called /\ write.unsupported # "none") =>
          /\ write.saves = 0
          /\ write.message = "Not implemented."
          /\ write.statusBar = <<>>

\* a write with bang of a file that is not writable relaxed the permissions, saved
\* and showed the text of the save
C27_Witness ==
    /\ DeniedWrite
    /\ write.bang
    /\ write.chmod = "ok"
    /\ write.saves = 1
    /\ write.pc = "idle"
    /\ write.statusBar = <<writtenText(buffer)>>

\* C28: a command runs to completion before Run resolves: on every path of write
\* (untitled, writable, denied without bang, denied with bang) the save and its
\* status text have happened by the time the promise Run awaits resolves.
\* With bang on a file that is not writable, execute hands a callback to fs.chmod
\* and returns: the save and its text come after the promise has resolved.
C28_WriteCompletesBeforeRunResolves ==
    write.result = "resolved" => write.pc = "idle"

(***************************************************************************)
(* The history store when its file cannot be written or is removed         *)
(***************************************************************************)
\* C29: a failure to create the history directory or to write the history file
\* during add is never raised to the caller of add; the list in memory is the one
\* a successful add leaves: it holds the added entry, last, whenever the cap keeps
\* an entry at all, and get() returns it.
C29_SaveFailureContained ==
    (AddedNonEmpty /\ ~hOp.wrote) =>
        /\ ~hOp.threw
        /\ history = addList(hOp.pre, hOp.arg, cap)
        /\ cap >= 1 =>
              /\ get(history, cap) # <<>>
              /\ Last(get(history, cap)) = hOp.arg

\* an add whose directory could not be created: nothing was written, the entry is
\* in memory after the earlier one
C29_Witness ==
    /\ AddedNonEmpty
    /\ ~hOp.wrote
    /\ ~dir
    /\ ~file.exists
    /\ hOp.pre = << <<"a">> >>
    /\ history = << <<"a">>, <<"x">> >>

\* C30: clear() removes the persisted file at most and never raises: the list in
\* memory is unchanged, get() afterwards returns what it returned before, and the
\* next add writes the result of adding to that unchanged list: all its entries
\* and the new one when the entry is new and the cap leaves room.
C30_ClearKeepsMemory ==
    [][/\ hOp'.op = "clear" =>
            /\ ~hOp'.threw
            /\ history' = history
            /\ get(history', cap') = get(history, cap)
            /\ file' \in {file, NoFile}
            /\ UNCHANGED <<dir, cap>>
       /\ (hOp.op = "clear" /\ hOp'.op = "add" /\ hOp'.arg # <<>> /\ hOp'.wrote) =>
            /\ file' = FileOf(JSONstringify(addList(hOp.pre, hOp'.arg, cap)))
            /\ (indexOf(hOp.pre, hOp'.arg) = 0 /\ Len(hOp.pre) < cap) =>
                  FileList(file') = Append(hOp.pre, hOp'.arg)]_vars

\* a clear removed the file of a store that holds two entries in memory
C30_Witness ==
    /\ hOp.op = "clear"
    /\ hOp.unlinkOk
    /\ ~file.exists
    /\ hOp.pre = << <<"a">>, <<"x">> >>
    /\ history = << <<"a">>, <<"x">> >>

====
